---------------------------- MODULE Spec2Model ----------------------------
(***************************************************************************)
(* A model of the gnss-intrinsics repository:                              *)
(*   src/src/avx2_intrinsics.h     the AVX2 oscillator, code replica and   *)
(*                                 vector arithmetic kernels               *)
(*   src/prof/trackC_standalone_avx512_16i_add_16i_mul_single_mulacc.c     *)
(*                                 the tracking loop (main)                *)
(*                                                                         *)
(* TLC's integers are 32 bits wide and signed, so a 32-bit unsigned word   *)
(* of the program is kept as a pair <<hi, lo>>: the oscillator's phase     *)
(* words as <<top 8 bits, low 24 bits>>.  Real numbers of the program are  *)
(* kept in fixed point; the inputs drawn are dyadic and small, so that the *)
(* float and double arithmetic of the code is exact on them.               *)
(***************************************************************************)
EXTENDS Integers, Sequences, FiniteSets, TLC

VARIABLES
  \* ---- oscillator kernels (avx2_nco_si32, avx2_nom_nco_si32)
  nco_lut,        \* which lookup table the caller passes
  nco_blk,        \* blk_size
  nco_rem,        \* rem_carr_phase, as a number of 1/PhaseDen turns
  nco_cf,         \* carr_freq, Hz
  nco_sf,         \* samp_freq, Hz
  nco_ran,        \* the oscillator kernels called so far
  nco_out,        \* sig_nco as written by avx2_nco_si32 (position -> value)
  nom_out         \* sig_nco as written by avx2_nom_nco_si32

ncoVars == <<nco_lut, nco_blk, nco_rem, nco_cf, nco_sf, nco_ran, nco_out, nom_out>>

VARIABLES
  \* ---- code replica kernels (avx2_code_si32, avx2_nom_code_si32) and the
  \*      in-line code loop of the tracking program, called on the same inputs
  code_tab,       \* which ranging code table the caller passes (cacode)
  code_blk,       \* blk_size
  code_rem,       \* rem_code_phase, in 1/CodeDen chips
  code_cf,        \* code_freq
  code_sf,        \* samp_freq
  code_spc,       \* earlyLateSpc of the in-line loop, in 1/CodeDen chips
  code_ran,       \* the code replica generators called so far
  vec_out,        \* <<ecode, pcode, lcode>> as written by avx2_code_si32
  nomc_out,       \* <<ecode, pcode, lcode>> as written by avx2_nom_code_si32
  nomc_idx,       \* sample -> <<eCodeIdx, pCodeIdx, lCodeIdx>> of avx2_nom_code_si32
  nomf_out,       \* <<ecode, pcode, lcode>> as written by avx2_nom_code_fl32
  nomf_idx,       \* sample -> <<eCodeIdx, pCodeIdx, lCodeIdx>> of avx2_nom_code_fl32
  inl_idx         \* sample -> <<eCode, pCode, lCode>> of the in-line loop

codeVars == <<code_tab, code_blk, code_rem, code_cf, code_sf, code_spc, code_ran,
              vec_out, nomc_out, nomc_idx, nomf_out, nomf_idx, inl_idx>>

VARIABLES
  \* ---- vector arithmetic kernels
  k_points,       \* num_points
  k_a,            \* which vector the caller passes as aVector / inputBuffer
  k_b,            \* which vector the caller passes as bVector
  k_called,       \* the kernel that was called ("none" before the call)
  k_cvec,         \* cVector as written by the multiply kernel called
  k_ret           \* the value returned by the accumulate kernel called

kernVars == <<k_points, k_a, k_b, k_called, k_cvec, k_ret>>

VARIABLES
  \* ---- the tracking loop (main)
  cfg,            \* the configuration loaded before the loop, and the length
                  \* of the raw sample file
  pc,             \* "loop": at the loop test; "done": after the loop, results
                  \* logged; "crashed": the process was killed
  loopcount,
  blksize,        \* blksize: the configured one, then that of the last epoch
  remCodePhase,   \* in 1/CodeDen chips
  remCarrPhase,   \* in 1/TurnDen turns
  carrFreq,
  codeFreq,
  oldCarrNco,
  oldCarrError,
  oldCodeNco,
  oldCodeError,
  vsmCount,
  pwrSum,
  pwrSqrSum,
  fpos,           \* position of fpdata, in bytes
  reads,          \* the fread calls so far: what was requested, what was read
  caCodeReads,    \* the indices at which the last epoch read caCode
  outputs,        \* the stores into the *_output arrays so far, in order
  VSMIndex        \* the stores into VSMIndex so far, in order

trackVars == <<cfg, pc, loopcount, blksize, remCodePhase, remCarrPhase, carrFreq,
               codeFreq, oldCarrNco, oldCarrError, oldCodeNco, oldCodeError,
               vsmCount, pwrSum, pwrSqrSum, fpos, reads, caCodeReads, outputs,
               VSMIndex>>

VARIABLES
  \* ---- the carrier replica of one sample (main, lines 181-185)
  trig_arg,       \* (int)(trigarg_vec[i] * 10000)
  trig_ran,       \* whether the replica of the sample was computed
  angle,          \* angle_vec[i]
  carrCos,        \* carrCos_vec[i]
  carrSin         \* carrSin_vec[i]

trigVars == <<trig_arg, trig_ran, angle, carrCos, carrSin>>

VARIABLES
  \* ---- one epoch of main on given samples (lines 149-226)
  mix_in,         \* the tables, the samples and the loop state the epoch starts from
  mix_ran,        \* whether the epoch was run
  mix_blksize,    \* blksize
  mix_sums        \* the six sums I_E, Q_E, I_P, Q_P, I_L, Q_L

mixVars == <<mix_in, mix_ran, mix_blksize, mix_sums>>

VARIABLES
  \* ---- the code phase of main in the doubles of the build (lines 149-150,
  \*      253, 281)
  ph_samplingFreq,  \* samplingFreq
  ph_codeFreq,      \* codeFreq
  ph_remCodePhase,  \* remCodePhase
  ph_codePhaseStep, \* codePhaseStep
  ph_blksize,       \* blksize
  ph_count          \* the epochs completed

phaseVars == <<ph_samplingFreq, ph_codeFreq, ph_remCodePhase, ph_codePhaseStep,
               ph_blksize, ph_count>>

vars == <<ncoVars, codeVars, kernVars, trackVars, trigVars, mixVars, phaseVars>>

-----------------------------------------------------------------------------
(* Bounds of the model.                                                    *)

\* Largest blk_size drawn for the oscillator and code replica kernels: two
\* full batches of 8 and a remainder.
MaxBlk == 17

\* Largest num_points drawn for the vector arithmetic kernels: two full
\* batches of 16 (four of 8) and a remainder.
MaxPoints == 33

\* Largest codePeriods drawn for the tracking loop.
MaxPeriods == 3

-----------------------------------------------------------------------------
(* Helpers.                                                                *)

\* An output buffer is a function from the positions written to the values
\* written there.
Empty == [p \in {} |-> 0]

Range(f) == {f[x] : x \in DOMAIN f}

\* f with position p set to v, p added to the domain when it is new.
Store(f, p, v) == [q \in (DOMAIN f) \cup {p} |-> IF q = p THEN v ELSE f[q]]

-----------------------------------------------------------------------------
(* 32-bit unsigned phase words, <<top 8 bits, low 24 bits>>.               *)

Two24 == 2 ^ 24

\* a + b modulo 2^32 (unsigned int addition, _mm256_add_epi32).
AddW(a, b) ==
  LET lo == a[2] + b[2]
  IN  <<(a[1] + b[1] + (lo \div Two24)) % 256, lo % Two24>>

\* k * w modulo 2^32 for a small multiplier k (0..8 in the code).
MulW(k, w) ==
  LET lo == k * w[2]
  IN  <<(k * w[1] + (lo \div Two24)) % 256, lo % Two24>>

\* w >> 24 (_mm256_srli_epi32(w, 24): a logical shift, zeros shifted in).
Srl24(w) == w[1]

-----------------------------------------------------------------------------
(* The oscillator (NCO) kernels.                                           *)

\* rem_carr_phase is drawn as n/PhaseDen of a turn, carr_freq as a whole
\* number of Hz below samp_freq, samp_freq as a whole number of Hz: on these
\* the error of the double arithmetic of the scaling is far below the
\* distance of the scaled value from a half.
PhaseDen == 2 ^ 12

\* (unsigned int)(rem_carr_phase * (4294967296.0 / (2.0 * M_PI)) + 0.5) for
\* rem_carr_phase = 2 pi n / PhaseDen: the word n * 2^32 / PhaseDen.
CarrPhaseBase(n) ==
  LET perHi == PhaseDen \div 256     \* 1/PhaseDen turns per step of the top byte
  IN  <<(n \div perHi) % 256, (n % perHi) * (Two24 \div perHi)>>

\* The step without the 0.5: the scaled value cut to a whole number.
CarrStepTruncated(cf, sf) ==
  LET whole == (cf * Two24) \div sf
      rest  == (cf * Two24) % sf
  IN  AddW(<<(whole \div 65536) % 256, (whole % 65536) * 256>>,
           <<0, (256 * rest) \div sf>>)

\* (unsigned int)(carr_freq * (4294967296.0 / samp_freq) + 0.5), for
\* 0 <= cf < sf: cf * 2^32 / sf is 256 * whole + 256 * rest / sf, and adding
\* 0.5 before the conversion (which truncates) rounds the last term to the
\* nearest whole number.
CarrStep(cf, sf) ==
  LET whole == (cf * Two24) \div sf
      rest  == (cf * Two24) % sf
  IN  AddW(<<(whole \div 65536) % 256, (whole % 65536) * 256>>,
           <<0, (512 * rest + sf) \div (2 * sf)>>)

\* The lookup tables the callers pass (256 entries covering one cycle).
LutRamp   == [i \in 0..255 |-> i]
LutSquare == [i \in 0..255 |-> IF i < 128 THEN 1 ELSE -1]
LutSaw    == [i \in 0..255 |-> (i % 64) - 32]
Lut(id) == CASE id = "ramp"   -> LutRamp
             [] id = "square" -> LutSquare
             [] id = "saw"    -> LutSaw

\* avx2_nom_nco_si32: the loop over inda, from inda with phase carrPhaseBase.
RECURSIVE NomNcoLoop(_, _, _, _, _, _)
NomNcoLoop(lut, blk_size, carrStep, inda, carrPhaseBase, sig_nco) ==
  IF inda >= blk_size THEN sig_nco
  ELSE LET carrIndex == Srl24(carrPhaseBase) % 256     \* (>> 24) & 0xFF
       IN  NomNcoLoop(lut, blk_size, carrStep, inda + 1,
                      AddW(carrPhaseBase, carrStep),
                      Store(sig_nco, inda, lut[carrIndex]))

avx2_nom_nco_si32(lut, blk_size, rem, cf, sf) ==
  NomNcoLoop(lut, blk_size, CarrStep(cf, sf), 0, CarrPhaseBase(rem), Empty)

\* avx2_nco_si32, the batches of 8: carr_phase_base is the vector of the 8
\* lanes' phases, sig_nco the buffer, inda the batch.
RECURSIVE NcoBatchLoop(_, _, _, _, _, _)
NcoBatchLoop(lut, eight_points, carr_step_offset, inda, carr_phase_base, sig_nco) ==
  IF inda >= eight_points THEN <<carr_phase_base, sig_nco>>
  ELSE LET carr_idx == [k \in 0..7 |-> Srl24(carr_phase_base[k])]
           nco      == [k \in 0..7 |-> lut[carr_idx[k]]]
           stored   == [p \in (DOMAIN sig_nco) \cup (8 * inda .. 8 * inda + 7) |->
                          IF p >= 8 * inda THEN nco[p - 8 * inda] ELSE sig_nco[p]]
       IN  NcoBatchLoop(lut, eight_points, carr_step_offset, inda + 1,
                        [k \in 0..7 |-> AddW(carr_phase_base[k], carr_step_offset)],
                        stored)

\* avx2_nco_si32, the remainder loop, from inda with phase nom_carr_phase_base.
RECURSIVE NcoTailLoop(_, _, _, _, _, _)
NcoTailLoop(lut, blk_size, nom_carr_step, inda, nom_carr_phase_base, sig_nco) ==
  IF inda >= blk_size THEN sig_nco
  ELSE LET nom_carr_idx == Srl24(nom_carr_phase_base) % 256
       IN  NcoTailLoop(lut, blk_size, nom_carr_step, inda + 1,
                       AddW(nom_carr_phase_base, nom_carr_step),
                       Store(sig_nco, inda, lut[nom_carr_idx]))

\* The lane of the batch's phase vector the remainder loop starts from:
\* _mm256_extract_epi32(carr_phase_base, 7).
NcoTailLane == 7

avx2_nco_si32(lut, blk_size, rem, cf, sf) ==
  LET eight_points   == blk_size \div 8
      nom_carr_step  == CarrStep(cf, sf)
      base           == CarrPhaseBase(rem)
      carr_step_base == [k \in 0..7 |-> MulW(k, nom_carr_step)]
      \* "First iteration happens outside the loop"
      first          == [k \in 0..7 |-> AddW(base, carr_step_base[k])]
      batches        == NcoBatchLoop(lut, eight_points, MulW(8, nom_carr_step),
                                     0, first, Empty)
  IN  NcoTailLoop(lut, blk_size, nom_carr_step, eight_points * 8,
                  batches[1][NcoTailLane], batches[2])

-----------------------------------------------------------------------------
(* The code replica generators.  Code phases are kept in 1/CodeDen chips;  *)
(* the inputs drawn are small multiples of 1/CodeDen, on which the float   *)
(* arithmetic of avx2_code_si32 and the double arithmetic of the scalar    *)
(* paths are both exact.                                                   *)

CodeDen == 2 ^ 3

\* The ranging code tables the callers pass: entry i of table id.
CaCode(id, i) ==
  CASE id = "index" -> 100 + i
    [] id = "chips" -> IF (i * i + (i \div 3)) % 5 < 2 THEN 1 ELSE -1

\* (int32_t)(x), (short)(x), (int)(x): a double to an integer, toward zero.
\* (The casts differ on values outside the short range, which no input
\* drawn here reaches.)
\* x is in 1/den units.
TruncToInt(x, den) == IF x >= 0 THEN x \div den ELSE -((-x) \div den)

\* _mm256_cvtps_epi32: a float to an integer under the default rounding mode,
\* to the nearest integer and, halfway between two, to the even one.
CvtpsEpi32(x) ==
  LET fl == x \div CodeDen
      r  == x - fl * CodeDen
  IN  IF 2 * r < CodeDen THEN fl
      ELSE IF 2 * r > CodeDen THEN fl + 1
      ELSE IF fl % 2 = 0 THEN fl ELSE fl + 1

\* The scalar rule without its "+ 1" branch: plain truncation.
ScalarCodeIdxTruncating(x, den) == TruncToInt(x, den)

\* The scalar rounding rule,
\*   (int32_t)(x) < x ? (x + 1) : x      converted to int,
\* of x in 1/den units.
ScalarCodeIdx(x, den) ==
  IF TruncToInt(x, den) * den < x THEN TruncToInt(x + den, den)
  ELSE TruncToInt(x, den)

\* codePhaseStep = code_freq / samp_freq, in 1/CodeDen chips (samp_freq is
\* drawn among the divisors of CodeDen).
CodePhaseStep(cf, sf) == cf * (CodeDen \div sf)

\* earlyLateSpc = 0.5 of the library's generators.
HalfChip == CodeDen \div 2

\* <<eCodeIdx, pCodeIdx, lCodeIdx>> of sample inda in the scalar loops, the
\* phases in 1/den chips.
ScalarCodeIdxs(inda, rem, step, earlyLateSpc, den) ==
  LET baseCode == inda * step + rem
  IN  <<ScalarCodeIdx(baseCode - earlyLateSpc, den), ScalarCodeIdx(baseCode, den),
        ScalarCodeIdx(baseCode + earlyLateSpc, den)>>

\* The scalar loop of avx2_nom_code_si32 and the remainder loop of
\* avx2_code_si32, from sample inda: ecode[inda], pcode[inda], lcode[inda]
\* are written at offset inda from where the three pointers stand (off).
RECURSIVE ScalarCodeLoop(_, _, _, _, _, _, _)
ScalarCodeLoop(tab, blk_size, rem, step, inda, off, out) ==
  IF inda >= blk_size THEN out
  ELSE LET idx == ScalarCodeIdxs(inda, rem, step, HalfChip, CodeDen)
       IN  ScalarCodeLoop(tab, blk_size, rem, step, inda + 1, off,
                          <<Store(out[1], off + inda, CaCode(tab, idx[1])),
                            Store(out[2], off + inda, CaCode(tab, idx[2])),
                            Store(out[3], off + inda, CaCode(tab, idx[3]))>>)

avx2_nom_code_si32(tab, blk_size, rem, cf, sf) ==
  ScalarCodeLoop(tab, blk_size, rem, CodePhaseStep(cf, sf), 0, 0,
                 <<Empty, Empty, Empty>>)

\* The indices avx2_nom_code_si32 computes, by sample.
NomCodeIdxs(blk_size, rem, cf, sf) ==
  [inda \in 0..blk_size - 1 |->
     ScalarCodeIdxs(inda, rem, CodePhaseStep(cf, sf), HalfChip, CodeDen)]

\* The indices the in-line loop of the tracking program computes, by sample.
InlineCodeIdxs(blk_size, rem, cf, sf, earlyLateSpc) ==
  [i \in 0..blk_size - 1 |->
     ScalarCodeIdxs(i, rem, CodePhaseStep(cf, sf), earlyLateSpc, CodeDen)]

\* The significand of a float: 24 bits.
FloatBits == 24

\* n rounded to a multiple of unit, to the nearest and, halfway between two,
\* to the one whose quotient is even.
RoundToMultiple(n, unit) ==
  LET q == n \div unit
      r == n % unit
  IN  IF 2 * r < unit THEN q * unit
      ELSE IF 2 * r > unit THEN (q + 1) * unit
      ELSE IF q % 2 = 0 THEN q * unit ELSE (q + 1) * unit

\* The unit in the last place of the float nearest to n: 1 while n has at
\* most FloatBits bits, doubled with every bit more.
RECURSIVE FloatUlp(_)
FloatUlp(n) ==
  IF n < 2 ^ FloatBits /\ -n < 2 ^ FloatBits THEN 1 ELSE 2 * FloatUlp(n \div 2)

\* (float)(x): the double x, in 1/CodeDen units (CodeDen a power of two),
\* rounded to the nearest float.
FloatOf(x) == RoundToMultiple(x, FloatUlp(x))

\* The rule of avx2_nom_code_fl32,
\*   (float)(x) < x ? (x + 1) : x      converted to int,
\* of x in 1/den units.
FloatCodeIdx(x, den) ==
  IF FloatOf(x) < x THEN TruncToInt(x + den, den) ELSE TruncToInt(x, den)

\* <<eCodeIdx, pCodeIdx, lCodeIdx>> of sample inda in avx2_nom_code_fl32.
FloatCodeIdxs(inda, rem, step, earlyLateSpc, den) ==
  LET baseCode == inda * step + rem
  IN  <<FloatCodeIdx(baseCode - earlyLateSpc, den), FloatCodeIdx(baseCode, den),
        FloatCodeIdx(baseCode + earlyLateSpc, den)>>

\* The loop of avx2_nom_code_fl32 from sample inda.
RECURSIVE FloatCodeLoop(_, _, _, _, _, _)
FloatCodeLoop(tab, blk_size, rem, step, inda, out) ==
  IF inda >= blk_size THEN out
  ELSE LET idx == FloatCodeIdxs(inda, rem, step, HalfChip, CodeDen)
       IN  FloatCodeLoop(tab, blk_size, rem, step, inda + 1,
                         <<Store(out[1], inda, CaCode(tab, idx[1])),
                           Store(out[2], inda, CaCode(tab, idx[2])),
                           Store(out[3], inda, CaCode(tab, idx[3]))>>)

avx2_nom_code_fl32(tab, blk_size, rem, cf, sf) ==
  FloatCodeLoop(tab, blk_size, rem, CodePhaseStep(cf, sf), 0,
                <<Empty, Empty, Empty>>)

\* The indices avx2_nom_code_fl32 computes, by sample.
NomCodeFl32Idxs(blk_size, rem, cf, sf) ==
  [inda \in 0..blk_size - 1 |->
     FloatCodeIdxs(inda, rem, CodePhaseStep(cf, sf), HalfChip, CodeDen)]

\* The integer lane index avx2_code_si32 takes from a lane's phase.
LaneCodeIdx(phase) == CvtpsEpi32(phase)

\* Where the remainder loop of avx2_code_si32 writes sample inda: the three
\* pointers were advanced by 8 in every batch and are then indexed by inda.
CodeTailOffset(eight_points) == 8 * eight_points

\* avx2_code_si32, the batches of 8: bases is <<ecode_phase_base,
\* pcode_phase_base, lcode_phase_base>>, each the vector of the 8 lanes.
RECURSIVE CodeBatchLoop(_, _, _, _, _, _)
CodeBatchLoop(tab, eight_points, code_step_offset, inda, bases, out) ==
  IF inda >= eight_points THEN out
  ELSE LET lut(r) == [k \in 0..7 |-> CaCode(tab, LaneCodeIdx(bases[r][k]))]
           stored(r) == [p \in (DOMAIN out[r]) \cup (8 * inda .. 8 * inda + 7) |->
                           IF p >= 8 * inda THEN lut(r)[p - 8 * inda] ELSE out[r][p]]
       IN  CodeBatchLoop(tab, eight_points, code_step_offset, inda + 1,
                         [r \in 1..3 |-> [k \in 0..7 |-> bases[r][k] + code_step_offset]],
                         <<stored(1), stored(2), stored(3)>>)

avx2_code_si32(tab, blk_size, rem, cf, sf) ==
  LET eight_points   == blk_size \div 8
      earlyLateSpc   == HalfChip
      codePhaseStep  == CodePhaseStep(cf, sf)
      code_step_base == [k \in 0..7 |-> k * codePhaseStep]
      \* _mm256_set1_ps(rem_code_phase -/+ earlyLateSpc + 0.5), and the
      \* first iteration, which "happens outside the loop"
      first == <<[k \in 0..7 |-> rem - earlyLateSpc + HalfChip + code_step_base[k]],
                 [k \in 0..7 |-> rem + HalfChip + code_step_base[k]],
                 [k \in 0..7 |-> rem + earlyLateSpc + HalfChip + code_step_base[k]]>>
      batches == CodeBatchLoop(tab, eight_points, 8 * codePhaseStep, 0, first,
                               <<Empty, Empty, Empty>>)
  IN  ScalarCodeLoop(tab, blk_size, rem, codePhaseStep, eight_points * 8,
                     CodeTailOffset(eight_points), batches)

-----------------------------------------------------------------------------
(* The vector arithmetic kernels.                                          *)
(* A 32-bit int is kept as the pair <<high 16 bits, low 16 bits>> of its   *)
(* two's complement word; a short is kept as the integer it is; a float is *)
(* kept as the small whole number it holds (products stay exact).          *)
(* Signed int overflow in the scalar loops wraps, as the compiled loops do.*)

Two16 == 2 ^ 16

\* The word of the int x.
Word32(x) == <<(x \div Two16) % Two16, x % Two16>>

\* The int a word holds (what the conversion to double returns).
Int32(w) == IF w[1] >= Two16 \div 2 THEN (w[1] - Two16) * Two16 + w[2]
            ELSE w[1] * Two16 + w[2]

\* a + b modulo 2^32 (_mm256_add_epi32, int +=).
Add32(a, b) ==
  LET lo == a[2] + b[2]
  IN  <<(a[1] + b[1] + (lo \div Two16)) % Two16, lo % Two16>>

\* The low 16 bits of x * y, for 16-bit x and y.
Mul16Lo(x, y) == ((x % 256) * y + (((x \div 256) * (y % 256)) % 256) * 256) % Two16

\* The low 32 bits of a * b (_mm256_mullo_epi32, int *).
Mul32Lo(a, b) ==
  LET t0  == a[2] * (b[2] % 256)
      t1  == a[2] * (b[2] \div 256)
      low == t0 + (t1 % 256) * 256
  IN  <<((t1 \div 256) + (low \div Two16) + Mul16Lo(a[1], b[2]) + Mul16Lo(a[2], b[1]))
          % Two16,
        low % Two16>>

\* x brought into the short range by wrapping (the low 16 bits, signed).
Wrap16(x) == ((x + Two16 \div 2) % Two16) - Two16 \div 2

\* x brought into the short range by clamping.
Sat16(x) == IF x > Two16 \div 2 - 1 THEN Two16 \div 2 - 1
            ELSE IF x < -(Two16 \div 2) THEN -(Two16 \div 2)
            ELSE x

\* _mm256_adds_epi16 on one lane: the saturating sum of two shorts.
AddsEpi16(x, y) == Sat16(x + y)

\* _mm256_mullo_epi16 on one lane: the low 16 bits of the product.
MulloEpi16(x, y) == Wrap16(x * y)

\* The vectors the callers pass, by name: element i as a short, as an int
\* and as a float.
ShortVec(id, i) ==
  CASE id = "big"   -> 20000
    [] id = "small" -> (i % 7) - 3
    [] id = "neg"   -> -20000 - i
    [] id = "mixed" -> <<32767, -32768, 181, -182, 0, 1, 255, -20000>>[(i % 8) + 1]

IntVec(id, i) ==
  CASE id = "big"   -> Word32(65536 + i)
    [] id = "small" -> Word32((i % 7) - 3)
    [] id = "neg"   -> Word32(-196615 - i)
    [] id = "mixed" -> Word32(<<2147483647, -2147483647 - 1, 46341, -46341, 0, 1,
                                65535, -20000>>[(i % 8) + 1])

FloatVec(id, i) ==
  CASE id = "big"   -> 1000 + i
    [] id = "small" -> (i % 7) - 3
    [] id = "neg"   -> -200 - i
    [] id = "mixed" -> <<4095, -4096, 181, -182, 0, 1, 255, -2000>>[(i % 8) + 1]

\* The product of elements i of a multiply kernel, in the arithmetic of its
\* element type: _mm256_mul_ps, _mm256_mullo_epi32, _mm256_mullo_epi16 in
\* the batches, the C product stored into the element type in the leftovers.
Product(type, a, b, i) ==
  CASE type = "fl32"  -> FloatVec(a, i) * FloatVec(b, i)
    [] type = "si32"  -> Mul32Lo(IntVec(a, i), IntVec(b, i))
    [] type = "short" -> MulloEpi16(ShortVec(a, i), ShortVec(b, i))

\* cVector with the products of the full batches of width lanes: batch
\* number writes positions width * number .. width * number + width - 1.
RECURSIVE MulBatches(_, _, _, _, _, _, _)
MulBatches(type, a, b, width, batches, number, cVector) ==
  IF number >= batches THEN cVector
  ELSE MulBatches(type, a, b, width, batches, number + 1,
         [p \in (DOMAIN cVector) \cup (width * number .. width * number + width - 1) |->
            IF p >= width * number THEN Product(type, a, b, p) ELSE cVector[p]])

\* The scalar leftover loop of a multiply kernel: *cPtr++ = (*aPtr++) * (*bPtr++).
RECURSIVE MulLeftover(_, _, _, _, _, _)
MulLeftover(type, a, b, num_points, number, cVector) ==
  IF number >= num_points THEN cVector
  ELSE MulLeftover(type, a, b, num_points, number + 1,
                   Store(cVector, number, Product(type, a, b, number)))

\* avx2_fl32_x2_mul_fl32: batches of 8 and nothing after them.
avx2_fl32_x2_mul_fl32(a, b, num_points) ==
  LET eigthPoints == num_points \div 8
  IN  MulBatches("fl32", a, b, 8, eigthPoints, 0, Empty)

\* avx2_si32_x2_mul_si32: batches of 8, then the leftover elements.
avx2_si32_x2_mul_si32(a, b, num_points) ==
  LET eigthPoints == num_points \div 8
  IN  MulLeftover("si32", a, b, num_points, eigthPoints * 8,
                  MulBatches("si32", a, b, 8, eigthPoints, 0, Empty))

\* avx2_mul_short: batches of 16, then the leftover elements (the int
\* product stored into a short keeps its low 16 bits).
avx2_mul_short(a, b, num_points) ==
  LET sixteenthPoints == num_points \div 16
  IN  MulLeftover("short", a, b, num_points, sixteenthPoints * 16,
                  MulBatches("short", a, b, 16, sixteenthPoints, 0, Empty))

\* What element i adds in an accumulate kernel.
Term(kernel, a, b, i) ==
  CASE kernel = "mul_and_acc_si32" -> Mul32Lo(IntVec(a, i), IntVec(b, i))
    [] kernel = "accumulate_short" -> ShortVec(a, i)
    \* _mm256_mullo_epi16(aVal, bVal) in the batches of avx2_mul_and_acc_short
    [] kernel = "mul_and_acc_short" -> MulloEpi16(ShortVec(a, i), ShortVec(b, i))
    \* (*aPtr++) * (*bPtr++) in its leftover loop: the product of two ints
    [] kernel = "mul_and_acc_short_leftover" ->
         Word32(ShortVec(a, i) * ShortVec(b, i))

\* The additions of the accumulate kernels.
Plus(op, x, y) ==
  CASE op = "add_epi32"  -> Add32(x, y)        \* _mm256_add_epi32, int +=
    [] op = "adds_epi16" -> AddsEpi16(x, y)    \* _mm256_adds_epi16
    [] op = "int"        -> x + y              \* int += short

\* The lanes of the accumulator after the full batches.
RECURSIVE AccBatches(_, _, _, _, _, _, _, _)
AccBatches(kernel, op, a, b, width, batches, number, accumulator) ==
  IF number >= batches THEN accumulator
  ELSE AccBatches(kernel, op, a, b, width, batches, number + 1,
         [k \in 0..width - 1 |->
            Plus(op, accumulator[k], Term(kernel, a, b, width * number + k))])

\* returnValue = tempBuffer[0]; returnValue += tempBuffer[1]; ...
RECURSIVE SumLanes(_, _, _, _)
SumLanes(op, tempBuffer, k, returnValue) ==
  IF k \notin DOMAIN tempBuffer THEN returnValue
  ELSE SumLanes(op, tempBuffer, k + 1, Plus(op, returnValue, tempBuffer[k]))

\* The scalar leftover loop of an accumulate kernel: returnValue += term.
RECURSIVE AccLeftover(_, _, _, _, _, _, _)
AccLeftover(kernel, op, a, b, num_points, number, returnValue) ==
  IF number >= num_points THEN returnValue
  ELSE AccLeftover(kernel, op, a, b, num_points, number + 1,
                   Plus(op, returnValue, Term(kernel, a, b, number)))

\* avx2_mul_and_acc_si32 without its leftover loop.
MulAndAccSi32NoLeftover(a, b, num_points) ==
  LET eigthPoints == num_points \div 8
      lanes == AccBatches("mul_and_acc_si32", "add_epi32", a, b, 8, eigthPoints, 0,
                          [k \in 0..7 |-> Word32(0)])
  IN  Int32(SumLanes("add_epi32", lanes, 1, lanes[0]))

\* avx2_mul_and_acc_si32: the int returned, converted to double.
avx2_mul_and_acc_si32(a, b, num_points) ==
  LET eigthPoints == num_points \div 8
      lanes  == AccBatches("mul_and_acc_si32", "add_epi32", a, b, 8, eigthPoints, 0,
                           [k \in 0..7 |-> Word32(0)])
      summed == SumLanes("add_epi32", lanes, 1, lanes[0])
  IN  Int32(AccLeftover("mul_and_acc_si32", "add_epi32", a, b, num_points,
                        eigthPoints * 8, summed))

\* avx_accumulate_short: 16 lanes added with _mm256_adds_epi16, summed into
\* an int, then the leftover elements.
avx_accumulate_short(a, num_points) ==
  LET sixteenthPoints == num_points \div 16
      lanes  == AccBatches("accumulate_short", "adds_epi16", a, a, 16, sixteenthPoints,
                           0, [k \in 0..15 |-> 0])
      summed == SumLanes("int", lanes, 1, lanes[0])
  IN  AccLeftover("accumulate_short", "int", a, a, num_points, sixteenthPoints * 16,
                  summed)

\* avx_accumulate_short_unsat: the same statements as avx_accumulate_short,
\* _mm256_adds_epi16 included.
avx_accumulate_short_unsat(a, num_points) ==
  LET sixteenthPoints == num_points \div 16
      lanes  == AccBatches("accumulate_short", "adds_epi16", a, a, 16, sixteenthPoints,
                           0, [k \in 0..15 |-> 0])
      summed == SumLanes("int", lanes, 1, lanes[0])
  IN  AccLeftover("accumulate_short", "int", a, a, num_points, sixteenthPoints * 16,
                  summed)

\* avx2_mul_and_acc_short: 16 lanes of _mm256_mullo_epi16 products added
\* with _mm256_adds_epi16, the lanes summed into an int, then the leftover
\* elements, each added as the int product of its pair (returnValue is an
\* int: the sum is kept as its word, and the addition is that of the build,
\* modulo 2^32).
avx2_mul_and_acc_short(a, b, num_points) ==
  LET sixteenthPoints == num_points \div 16
      lanes  == AccBatches("mul_and_acc_short", "adds_epi16", a, b, 16,
                           sixteenthPoints, 0, [k \in 0..15 |-> 0])
      summed == SumLanes("int", lanes, 1, lanes[0])
  IN  Int32(AccLeftover("mul_and_acc_short_leftover", "add_epi32", a, b,
                        num_points, sixteenthPoints * 16, Word32(summed)))

-----------------------------------------------------------------------------
(* The tracking loop: main of                                              *)
(* trackC_standalone_avx512_16i_add_16i_mul_single_mulacc.c.               *)
(*                                                                         *)
(* A double of the loop is a finite number, an infinity or a NaN:          *)
(*   <<"fin", n>>     <<"inf", 1>>     <<"inf", -1>>     <<"nan", 0>>      *)
(* (the sign of a zero is not kept).  The n of a finite number counts the  *)
(* unit of its quantity:                                                   *)
(*   a frequency       codeFreqBasis / 2^13  (1023002.79220779 / 8192 Hz)  *)
(*   a code phase      1/CodeDen chip                                      *)
(*   a carrier phase   1/TurnDen turn, a turn being 2 * pi                 *)
(*   a discriminator   1/DiscrDen                                          *)
(* and the configurations drawn keep every quotient of the loop exact.     *)

Fin(n) == <<"fin", n>>
PInf == <<"inf", 1>>
NInf == <<"inf", -1>>
NaN == <<"nan", 0>>

IsFin(x) == x[1] = "fin"
IsNaN(x) == x[1] = "nan"

Sign(n) == IF n > 0 THEN 1 ELSE IF n < 0 THEN -1 ELSE 0

\* -x
XNeg(x) == IF IsNaN(x) THEN NaN ELSE <<x[1], -x[2]>>

\* x + y: inf + (-inf) is NaN.
XAdd(x, y) ==
  IF IsNaN(x) \/ IsNaN(y) THEN NaN
  ELSE IF IsFin(x) /\ IsFin(y) THEN Fin(x[2] + y[2])
  ELSE IF IsFin(x) THEN y
  ELSE IF IsFin(y) THEN x
  ELSE IF x[2] = y[2] THEN x ELSE NaN

\* x - y
XSub(x, y) == XAdd(x, XNeg(y))

\* x * y: 0 * inf is NaN.
XMul(x, y) ==
  IF IsNaN(x) \/ IsNaN(y) THEN NaN
  ELSE IF IsFin(x) /\ IsFin(y) THEN Fin(x[2] * y[2])
  ELSE IF Sign(x[2]) * Sign(y[2]) = 0 THEN NaN
  ELSE <<"inf", Sign(x[2]) * Sign(y[2])>>

\* x / y: 0 / 0 and inf / inf are NaN, x / 0 is an infinity, x / inf is 0.
XDiv(x, y) ==
  IF IsNaN(x) \/ IsNaN(y) THEN NaN
  ELSE IF IsFin(x) /\ IsFin(y)
    THEN IF y[2] = 0
           THEN IF x[2] = 0 THEN NaN ELSE <<"inf", Sign(x[2])>>
         ELSE Fin(Sign(x[2]) * Sign(y[2]) *
                  ((x[2] * Sign(x[2])) \div (y[2] * Sign(y[2]))))
  ELSE IF IsFin(x) THEN Fin(0)
  ELSE IF IsFin(y) THEN <<"inf", x[2] * (IF y[2] < 0 THEN -1 ELSE 1)>>
  ELSE NaN

TurnDen == 2 ^ 3
DiscrDen == 2 ^ 3

\* double caCode[1025]
caCodeLen == 1025

\* codeFreq = codeFreqBasis = 1023002.79220779
codeFreqBasis == Fin(2 ^ 13)

\* The 1023 of  remCodePhase + blksize * codePhaseStep - 1023.
Chips1023 == Fin(1023 * CodeDen)

\* codePhaseStep = codeFreq / samplingFreq, in 1/CodeDen chips.
CodePhaseStepOf(freq, samplingFreq) == XDiv(XMul(Fin(CodeDen), freq), samplingFreq)

\* ceil(x / y) for integers x and y, y # 0.
CeilDiv(x, y) == IF y > 0 THEN -((-x) \div y) ELSE -(x \div (-y))

\* ceil((codeLength - remCodePhase) / codePhaseStep), the double that is
\* then converted to the int blksize.
BlkSize(codeLength, rem, step) ==
  LET span == XSub(codeLength, rem)
  IN  IF IsFin(span) /\ IsFin(step) /\ step[2] # 0
        THEN Fin(CeilDiv(span[2], step[2]))
      ELSE XDiv(span, step)

\* The int that the conversion of an infinity or a NaN yields in the build
\* (the conversion is undefined): INT_MIN.
IntMin == -2147483647 - 1

\* for (loopcount = 0; loopcount < codePeriods; loopcount++)
LoopTest(count, codePeriods) == count < codePeriods

\* The window test that closes a window at every epoch.
VsmWindowFullEveryEpoch(count, vsmInterval) == count >= 1

\* The window test that skips the interval the counter reaches.
VsmWindowFullLate(count, vsmInterval) == count > vsmInterval

\* if (vsmCount == vsmInterval), after vsmCount++
VsmWindowFull(count, vsmInterval) == count = vsmInterval

\* fread(rawSignal, sizeof(char), count, fpdata) with remaining bytes left in
\* the file: the number of bytes read.  count is converted to size_t.
Fread(count, remaining) ==
  IF count < 0 \/ count > remaining THEN remaining ELSE count

\* <<eCode, pCode, lCode>> of the samples of an epoch.
EpochCodeIdxs(size, rem, step, earlyLateSpc) ==
  [i \in 0..size - 1 |-> ScalarCodeIdxs(i, rem, step, earlyLateSpc, CodeDen)]

\* The six sums of an epoch, as the raw samples, the ranging code and the
\* carrier replica make them: the samples are an input of the program, and
\* the sums are drawn among
\*   no power at all (samples that are all 0, or no sample at all),
\*   a replica aligned with the signal, a replica that is late, one that is
\*   early, and prompt sums that are both 0 with power in the other two.
Correlation(IE, QE, IP, QP, IL, QL) ==
  [I_E |-> IE, Q_E |-> QE, I_P |-> IP, Q_P |-> QP, I_L |-> IL, Q_L |-> QL]

NoPower == Correlation(0, 0, 0, 0, 0, 0)

Correlations ==
  {NoPower,
   Correlation(8, 0, 16, 0, 8, 0),
   Correlation(24, 0, 16, 16, 8, 0),
   Correlation(8, 0, 16, -16, 24, 0),
   Correlation(8, 0, 0, 0, 8, 0)}

Abs(n) == IF n < 0 THEN -n ELSE n

\* sqrt(I * I + Q * Q), for sums of which one is 0.
Magnitude(I, Q) == IF Q = 0 THEN Abs(I) ELSE Abs(Q)

\* carrError = atan(Q_P / I_P) / (2.0 * pi), in 1/DiscrDen: atan of 0 is 0,
\* of 1 an eighth of a turn, of an infinity a quarter of a turn.
CarrDiscriminator(I_P, Q_P) ==
  CASE I_P = 0 /\ Q_P = 0 -> NaN
    [] I_P = 0 /\ Q_P # 0 -> Fin(Sign(Q_P) * (DiscrDen \div 4))
    [] I_P # 0 /\ Q_P = 0 -> Fin(0)
    [] I_P # 0 /\ Q_P = I_P -> Fin(DiscrDen \div 8)
    [] I_P # 0 /\ Q_P = -I_P -> Fin(-(DiscrDen \div 8))

\* codeError = (sqrt(I_E^2 + Q_E^2) - sqrt(I_L^2 + Q_L^2)) /
\*             (sqrt(I_E^2 + Q_E^2) + sqrt(I_L^2 + Q_L^2)), in 1/DiscrDen.
CodeDiscriminator(I_E, Q_E, I_L, Q_L) ==
  XDiv(Fin(DiscrDen * (Magnitude(I_E, Q_E) - Magnitude(I_L, Q_L))),
       Fin(Magnitude(I_E, Q_E) + Magnitude(I_L, Q_L)))

\* The filter with a single tap: the previous error is not subtracted.
LoopFilterOneTap(oldNco, tau2, tau1, error, oldError, PDI) ==
  XAdd(XAdd(oldNco, XMul(XDiv(tau2, tau1), error)),
       XMul(error, XDiv(PDI, tau1)))

\* nco = oldNco + (tau2 / tau1) * (error - oldError) + error * (PDI / tau1)
LoopFilter(oldNco, tau2, tau1, error, oldError, PDI) ==
  XAdd(XAdd(oldNco, XMul(XDiv(tau2, tau1), XSub(error, oldError))),
       XMul(error, XDiv(PDI, tau1)))

\* trigarg = (2.0 * pi * carrFreq * (blksize / samplingFreq)) + remCarrPhase,
\* in 1/TurnDen turns.
Trigarg(freq, size, samplingFreq, rem) ==
  XAdd(XDiv(XMul(freq, Fin(TurnDen * size)), samplingFreq), rem)

\* trigarg - (2 * pi) * ((int)(trigarg / (2 * pi))): the conversion is toward
\* zero; of an infinity or a NaN it is some int, and the difference is the
\* infinity or the NaN again.
WrapCarrPhase(trigarg) ==
  IF IsFin(trigarg)
    THEN Fin(trigarg[2] - TurnDen * TruncToInt(trigarg[2], TurnDen))
  ELSE trigarg

-----------------------------------------------------------------------------
(* The carrier replica of the tracking program (main, lines 34-36 and      *)
(* 181-185): square waves over an angle in 1/10000 radian.                 *)

\* The modulus of angle_vec[i] = (int)(trigarg_vec[i] * 10000) % 62832.
AngleTurn == 62832

\* a % b of C for b > 0: the quotient is cut toward zero, so the remainder
\* has the sign of a.
CRem(a, b) == IF a >= 0 THEN a % b ELSE -((-a) % b)

\* The sine with the half cycle 31416 counted in the lower half.
gps_sin_from_half(x) == IF (x >= 31416) \/ (x < 0 /\ x >= -31416) THEN -1 ELSE 1

\* #define gps_sin(x) (((x > 31416) || (x < 0 && x > -31416)) ? -1 : +1)
gps_sin(x) == IF (x > 31416) \/ (x < 0 /\ x > -31416) THEN -1 ELSE 1

\* The cosine with the edges of the bands counted in the bands.
gps_cos_with_edges(x) ==
  IF (x >= 15708 /\ x <= 47124) \/ (x <= -15708 /\ x >= -47124) THEN -1 ELSE 1

\* #define gps_cos(x)
\*   (((x > 15708 && x < 47124) || (x < -15708 && x > -47124)) ? -1 : 1)
gps_cos(x) == IF (x > 15708 /\ x < 47124) \/ (x < -15708 /\ x > -47124) THEN -1 ELSE 1

\* (short)(round(8 * (v))) for v = -1 or 1.
CarrReplica(v) == 8 * v

-----------------------------------------------------------------------------
(* One epoch of the tracking program on given samples (main, lines         *)
(* 149-226): the block length, the carrier and code replicas of every      *)
(* sample, the mixing and the six correlator sums.                         *)

\* The ranging code tables drawn: entry i of table id.
MixCaCode(id, i) ==
  CASE id = "ones"  -> 1
    [] id = "chips" -> CaCode("chips", i)

\* rawSignal[i] after the fread of the epoch, for the sample files drawn.
RawSignal(id, i) ==
  CASE id = "ones"        -> 1
    [] id = "minus"       -> -1
    [] id = "alternating" -> IF i % 2 = 0 THEN 1 ELSE -1

\* (int)(trigarg_vec[i] * 10000) for a trigarg_vec[i] of m eighths of
\* 2.0 * pi, pi = 3.1415926535 (line 58): the whole part of
\* m * 7853.98163375 (for the m reached here, below 1100).
TrigargTimes10000(m) == m * 7853 + (m * 981634) \div 1000000

\* angle_vec[i]: the carrier advances carrFreq / samplingFreq turns a sample
\* from remCarrPhase (in 1/TurnDen turns).
MixAngle(in, i) ==
  CRem(TrigargTimes10000((TurnDen * in.carrFreq[2] * i) \div in.samplingFreq[2]
                         + in.remCarrPhase[2]),
       AngleTurn)

\* mixedcarrSin_vec[i] = carrSin_vec[i] * rawSignal[i]
MixedCarrSin(in, i) ==
  CarrReplica(gps_sin(MixAngle(in, i))) * RawSignal(in.rawSignal, i)

\* mixedcarrCos_vec[i] = carrCos_vec[i] * rawSignal[i]
MixedCarrCos(in, i) ==
  CarrReplica(gps_cos(MixAngle(in, i))) * RawSignal(in.rawSignal, i)

\* <<eCode_vec[i], pCode_vec[i], lCode_vec[i]>>
MixCodes(in, i) ==
  LET step == CodePhaseStepOf(codeFreqBasis, in.samplingFreq)
      idx  == ScalarCodeIdxs(i, in.remCodePhase[2], step[2], in.earlyLateSpc, CodeDen)
  IN  <<MixCaCode(in.caCode, idx[1]), MixCaCode(in.caCode, idx[2]),
        MixCaCode(in.caCode, idx[3])>>

\* f[lo] + ... + f[hi]
RECURSIVE SumOver(_, _, _)
SumOver(f, lo, hi) ==
  IF lo > hi THEN 0
  ELSE IF lo = hi THEN f[lo]
  ELSE SumOver(f, lo, (lo + hi) \div 2) + SumOver(f, (lo + hi) \div 2 + 1, hi)

\* avx512_mul_and_acc_16i(a, b, n): the dot product of the first n elements
\* (the sums reached here fit 16 bits, so no variant of the running sum
\* saturates or rolls over).
avx512_mul_and_acc_16i(a, b, n) ==
  SumOver([i \in 0 .. n - 1 |-> a[i] * b[i]], 0, n - 1)

\* blksize of the epoch.
MixBlkSize(in) ==
  BlkSize(in.codeLength, in.remCodePhase,
          CodePhaseStepOf(codeFreqBasis, in.samplingFreq))[2]

\* The six sums of the epoch, lines 211-226.
MixSums(in) ==
  LET n     == MixBlkSize(in)
      codes == [i \in 0 .. n - 1 |-> MixCodes(in, i)]
      eCode_vec == [i \in 0 .. n - 1 |-> codes[i][1]]
      pCode_vec == [i \in 0 .. n - 1 |-> codes[i][2]]
      lCode_vec == [i \in 0 .. n - 1 |-> codes[i][3]]
      mixedcarrSin_vec == [i \in 0 .. n - 1 |-> MixedCarrSin(in, i)]
      mixedcarrCos_vec == [i \in 0 .. n - 1 |-> MixedCarrCos(in, i)]
  IN  Correlation(avx512_mul_and_acc_16i(eCode_vec, mixedcarrSin_vec, n),
                  avx512_mul_and_acc_16i(eCode_vec, mixedcarrCos_vec, n),
                  avx512_mul_and_acc_16i(pCode_vec, mixedcarrSin_vec, n),
                  avx512_mul_and_acc_16i(pCode_vec, mixedcarrCos_vec, n),
                  avx512_mul_and_acc_16i(lCode_vec, mixedcarrSin_vec, n),
                  avx512_mul_and_acc_16i(lCode_vec, mixedcarrCos_vec, n))

\* What the first epoch of a run starts from: the tables, the samples and
\* the values of the configuration.
MixInput(caCode, rawSignal, samplingFreq, remCode, carr, remCarr) ==
  [caCode |-> caCode, rawSignal |-> rawSignal, samplingFreq |-> samplingFreq,
   codeLength |-> Chips1023, remCodePhase |-> remCode,
   earlyLateSpc |-> HalfChip, carrFreq |-> carr, remCarrPhase |-> remCarr]

-----------------------------------------------------------------------------
(* The specifications: one for each group of kernels and one for the       *)
(* tracking loop.  Each leaves the variables of the others idle.           *)

NcoIdle ==
  /\ nco_lut = "ramp" /\ nco_blk = 0 /\ nco_rem = 0 /\ nco_cf = 0 /\ nco_sf = 256
  /\ nco_ran = {} /\ nco_out = Empty /\ nom_out = Empty

CodeIdle ==
  /\ code_tab = "index" /\ code_blk = 0 /\ code_rem = 0 /\ code_cf = 1
  /\ code_sf = 1 /\ code_spc = HalfChip /\ code_ran = {}
  /\ vec_out = <<Empty, Empty, Empty>> /\ nomc_out = <<Empty, Empty, Empty>>
  /\ nomc_idx = Empty /\ inl_idx = Empty
  /\ nomf_out = <<Empty, Empty, Empty>> /\ nomf_idx = Empty

KernIdle ==
  /\ k_points = 0 /\ k_a = "small" /\ k_b = "small" /\ k_called = "none"
  /\ k_cvec = Empty /\ k_ret = 0

TrigIdle ==
  /\ trig_arg = 0 /\ trig_ran = FALSE /\ angle = 0 /\ carrCos = 0 /\ carrSin = 0

MixIdle ==
  /\ mix_in = MixInput("ones", "ones", codeFreqBasis, Fin(0), Fin(0), Fin(0))
  /\ mix_ran = FALSE /\ mix_blksize = 0 /\ mix_sums = NoPower

-----------------------------------------------------------------------------
(* The code phase of the tracking loop in the arithmetic of the build      *)
(* (main, lines 149-150 and 253): codePhaseStep, remCodePhase and the      *)
(* operands of blksize are IEEE doubles, every operation rounded to the    *)
(* nearest double and, halfway between two, to the one whose significand   *)
(* is even.                                                                *)
(*                                                                         *)
(* A natural number of more than 31 bits is the tuple of its Limbs digits  *)
(* in base LimbBase, the lowest first.                                     *)

LimbBits == 13
LimbBase == 2 ^ LimbBits
Limbs == 12

\* The significand of a double: 53 bits.
DoubleBits == 53

\* The tuple of the digits f[1], ..., f[Limbs].
Digits(f) == SubSeq(f, 1, Limbs)

BigZero == Digits([i \in 1..Limbs |-> 0])

\* The number whose lowest digits are given.
BigOfDigits(digits) ==
  Digits([i \in 1..Limbs |-> IF i <= Len(digits) THEN digits[i] ELSE 0])

\* The number n, 0 <= n < 2^31.
BigOfInt(n) ==
  Digits([i \in 1..Limbs |->
            IF i <= 3 THEN (n \div (LimbBase ^ (i - 1))) % LimbBase ELSE 0])

\* The integer a, for a < 2^31.
BigToInt(a) == a[1] + LimbBase * a[2] + LimbBase * LimbBase * a[3]

Limb(a, i) == IF i \in 1..Limbs THEN a[i] ELSE 0

\* The place of the highest digit of a that is not 0 (0 when a is 0).
BigTop(a) ==
  LET nz == {i \in 1..Limbs : a[i] # 0}
  IN  IF nz = {} THEN 0 ELSE CHOOSE i \in nz : \A j \in nz : j <= i

BigLess(a, b) ==
  LET differ == {i \in 1..Limbs : a[i] # b[i]}
  IN  /\ differ # {}
      /\ LET top == CHOOSE i \in differ : \A j \in differ : j <= i
         IN  a[top] < b[top]

\* a + b: a digit takes a carry when a lower place overflows and every place
\* between passes the carry on.
BigAdd(a, b) ==
  Digits([i \in 1..Limbs |->
            (a[i] + b[i] +
             (IF \E j \in 1..i - 1 :
                    /\ a[j] + b[j] >= LimbBase
                    /\ \A k \in j + 1..i - 1 : a[k] + b[k] = LimbBase - 1
                THEN 1 ELSE 0)) % LimbBase])

\* a - b, for a >= b.
BigSub(a, b) ==
  Digits([i \in 1..Limbs |->
            (a[i] - b[i] -
             (IF \E j \in 1..i - 1 :
                    /\ a[j] < b[j]
                    /\ \A k \in j + 1..i - 1 : a[k] = b[k]
                THEN 1 ELSE 0)) % LimbBase])

\* a * 2^k.
BigShl(a, k) ==
  LET q == k \div LimbBits
      r == k % LimbBits
  IN  Digits([i \in 1..Limbs |->
                ((Limb(a, i - q) * 2 ^ r) % LimbBase) +
                (Limb(a, i - q - 1) \div 2 ^ (LimbBits - r))])

\* a \div 2^k.
BigShr(a, k) ==
  LET q == k \div LimbBits
      r == k % LimbBits
  IN  Digits([i \in 1..Limbs |->
                (Limb(a, i + q) \div 2 ^ r) +
                ((Limb(a, i + q + 1) % 2 ^ r) * 2 ^ (LimbBits - r))])

\* Bit i of a, the lowest being bit 1.
BigBit(a, i) ==
  (Limb(a, ((i - 1) \div LimbBits) + 1) \div 2 ^ ((i - 1) % LimbBits)) % 2

\* The number of bits of a.
BigBitLen(a) ==
  LET top == BigTop(a)
  IN  IF top = 0 THEN 0
      ELSE LimbBits * (top - 1) +
           Cardinality({j \in 0..LimbBits - 1 : 2 ^ j <= a[top]})

\* a * d for one digit d.
BigMulLimb(a, d) ==
  BigAdd(Digits([i \in 1..Limbs |-> (a[i] * d) % LimbBase]),
         Digits([i \in 1..Limbs |->
                   IF i = 1 THEN 0 ELSE (a[i - 1] * d) \div LimbBase]))

\* a * n, 0 <= n < LimbBase^2.
BigMulInt(a, n) ==
  BigAdd(BigMulLimb(a, n % LimbBase),
         BigShl(BigMulLimb(a, n \div LimbBase), LimbBits))

\* <<quotient, remainder>> of n by d, d # 0, given qr, the pair for
\* n \div 16^i: one more hexadecimal digit of the quotient for each one of n
\* taken in.
RECURSIVE BigDivMod(_, _, _, _)
BigDivMod(n, d, i, qr) ==
  IF i = 0 THEN qr
  ELSE LET shifted == [BigShl(qr[2], 4) EXCEPT
                         ![1] = @ + (BigShr(n, 4 * (i - 1))[1] % 16)]
           digit   == Cardinality({q \in 1..15 :
                                     ~BigLess(shifted, BigMulLimb(d, q))})
       IN  IF digit = 0
             THEN BigDivMod(n, d, i - 1, <<BigShl(qr[1], 4), shifted>>)
           ELSE BigDivMod(n, d, i - 1,
                          <<[BigShl(qr[1], 4) EXCEPT ![1] = @ + digit],
                            BigSub(shifted, BigMulLimb(d, digit))>>)

\* A double, or the exact result of an operation before it is rounded:
\* sgn * man * 2^exp.
Dbl(sgn, man, exp) == [sgn |-> sgn, man |-> man, exp |-> exp]

DblOfInt(n) == Dbl(IF n < 0 THEN -1 ELSE 1, BigOfInt(IF n < 0 THEN -n ELSE n), 0)

DblNeg(x) == Dbl(-x.sgn, x.man, x.exp)

\* x + y, exactly.
DblSum(x, y) ==
  LET exp == IF x.exp < y.exp THEN x.exp ELSE y.exp
      a   == BigShl(x.man, x.exp - exp)
      b   == BigShl(y.man, y.exp - exp)
  IN  IF x.sgn = y.sgn THEN Dbl(x.sgn, BigAdd(a, b), exp)
      ELSE IF BigLess(a, b) THEN Dbl(y.sgn, BigSub(b, a), exp)
      ELSE Dbl(x.sgn, BigSub(a, b), exp)

DblIsZero(x) == x.man = BigZero

\* x < y
DblLess(x, y) ==
  LET diff == DblSum(x, DblNeg(y))
  IN  diff.sgn = -1 /\ ~DblIsZero(diff)

\* x rounded to the nearest double (to DoubleBits bits of significand).
RoundToDouble(x) ==
  LET drop == BigBitLen(x.man) - DoubleBits
      kept == BigShr(x.man, drop)
      up   == /\ BigBit(x.man, drop) = 1
              /\ \/ BigShl(BigShr(x.man, drop - 1), drop - 1) # x.man
                 \/ kept[1] % 2 = 1
  IN  IF drop <= 0 THEN x
      ELSE Dbl(x.sgn, IF up THEN BigAdd(kept, BigOfInt(1)) ELSE kept, x.exp + drop)

\* The double x + y, the double x - y and the double n * x of an int n
\* converted to double, 0 <= n < LimbBase^2.
DblAdd(x, y) == RoundToDouble(DblSum(x, y))
DblSub(x, y) == RoundToDouble(DblSum(x, DblNeg(y)))
DblMulInt(n, x) == RoundToDouble(Dbl(x.sgn, BigMulInt(x.man, n), x.exp))

\* The double x / y, y # 0: the quotient of the significands to at least
\* three bits more than a double holds, a last bit that tells whether
\* anything is left over, and the rounding.
DblDiv(x, y) ==
  LET lead  == DoubleBits + 3 + BigBitLen(y.man) - BigBitLen(x.man)
      shift == IF lead > 0 THEN lead ELSE 0
      num   == BigShl(x.man, shift)
      low   == (BigBitLen(num) - BigBitLen(y.man)) \div 4 + 1
      qr    == BigDivMod(num, y.man, low, <<BigZero, BigShr(num, 4 * low)>>)
      man   == [BigShl(qr[1], 1) EXCEPT ![1] = @ + (IF qr[2] = BigZero THEN 0 ELSE 1)]
  IN  IF DblIsZero(x) THEN x
      ELSE RoundToDouble(Dbl(x.sgn * y.sgn, man, x.exp - y.exp - shift - 1))

\* (int)ceil(x), for a result that an int holds.
DblCeilToInt(x) ==
  LET whole == IF x.exp >= 0 THEN BigToInt(BigShl(x.man, x.exp))
               ELSE BigToInt(BigShr(x.man, -x.exp))
      exact == x.exp >= 0 \/ BigShl(BigShr(x.man, -x.exp), -x.exp) = x.man
  IN  IF x.sgn = 1 THEN (IF exact THEN whole ELSE whole + 1) ELSE -whole

\* codeFreqBasis = 1023002.79220779 (line 100) and codeLength = 1023, as
\* doubles.
CodeFreqBasisDouble == Dbl(1, BigOfDigits(<<619, 3298, 3429, 7792, 1>>), -33)
CodeLengthDouble == DblOfInt(caCodeLen - 2)

PhaseIdle ==
  /\ ph_samplingFreq = CodeFreqBasisDouble /\ ph_codeFreq = CodeFreqBasisDouble
  /\ ph_remCodePhase = DblOfInt(0) /\ ph_codePhaseStep = DblOfInt(0)
  /\ ph_blksize = 0 /\ ph_count = 0

-----------------------------------------------------------------------------
\* The blksize of data/blksize.bin (line 81): the data files being those of
\* one run, it is the block length of the run's first epoch, from
\* remCodePhase = 0 at codeFreqBasis.
ConfiguredBlkSize(codeLength, samplingFreq) ==
  LET size == BlkSize(codeLength, Fin(0), CodePhaseStepOf(codeFreqBasis, samplingFreq))
  IN  IF IsFin(size) THEN size[2] ELSE 0

\* The number of bytes rawSignal was allocated with (line 125):
\* calloc(dataAdaptCoeff * blksize, sizeof(char)), blksize the configured one.
RawSignalCapacity(config) == config.dataAdaptCoeff * config.blksize

\* The configuration of a run: the values read from the data files before
\* the loop, and the number of bytes the raw sample file holds after the
\* position the program seeks to.
Config(samplingFreq, tau1carr, tau1code, earlyLateSpc, codeLength, codePeriods,
       vsmInterval, fileBytes) ==
  [samplingFreq |-> samplingFreq, tau1carr |-> tau1carr, tau1code |-> tau1code,
   earlyLateSpc |-> earlyLateSpc, codeLength |-> codeLength,
   codePeriods |-> codePeriods, vsmInterval |-> vsmInterval,
   fileBytes |-> fileBytes,
   remCodePhase |-> Fin(0), remCarrPhase |-> Fin(0),
   carrFreq |-> Fin(36), carrFreqBasis |-> Fin(36),
   tau2carr |-> Fin(4), PDIcarr |-> Fin(4),
   tau2code |-> Fin(2), PDIcode |-> Fin(2),
   dataAdaptCoeff |-> 1,
   blksize |-> ConfiguredBlkSize(codeLength, samplingFreq)]

\* The loop reached with the memory of the two loop filters left as it
\* happened to be, not set by lines 65-70.
AtLoopStartUninitialised(config) ==
  /\ cfg = config
  /\ pc = "loop"
  /\ loopcount = 0
  /\ blksize = config.blksize
  /\ remCodePhase = config.remCodePhase
  /\ remCarrPhase = config.remCarrPhase
  /\ carrFreq = config.carrFreq
  /\ codeFreq = codeFreqBasis
  /\ oldCarrNco \in {Fin(0), Fin(1)} /\ oldCarrError \in {Fin(0), Fin(1)}
  /\ oldCodeNco \in {Fin(0), Fin(1)} /\ oldCodeError \in {Fin(0), Fin(1)}
  /\ vsmCount = 0 /\ pwrSum = 0 /\ pwrSqrSum = 0
  /\ fpos = 0
  /\ reads = << >>
  /\ caCodeReads = {}
  /\ outputs = << >>
  /\ VSMIndex = << >>

\* The state of main when the loop is reached: lines 63-76 and 79-131.
AtLoopStart(config) ==
  /\ cfg = config
  /\ pc = "loop"
  /\ loopcount = 0
  /\ blksize = config.blksize
  /\ remCodePhase = config.remCodePhase
  /\ remCarrPhase = config.remCarrPhase
  /\ carrFreq = config.carrFreq
  /\ codeFreq = codeFreqBasis
  /\ oldCarrNco = Fin(0) /\ oldCarrError = Fin(0)
  /\ oldCodeNco = Fin(0) /\ oldCodeError = Fin(0)
  /\ vsmCount = 0 /\ pwrSum = 0 /\ pwrSqrSum = 0
  /\ fpos = 0
  /\ reads = << >>
  /\ caCodeReads = {}
  /\ outputs = << >>
  /\ VSMIndex = << >>

TrackIdle ==
  AtLoopStart(Config(Fin(32), Fin(1), Fin(1), HalfChip, Fin(1023 * CodeDen), 0, 1, 0))

\* ---- the oscillator kernels

\* The inputs drawn for the oscillator kernels.
NcoLuts  == {"ramp", "square", "saw"}
NcoRems  == {0, 1, PhaseDen \div 2, PhaseDen - 1}
NcoFreqs == {0, 1, 3, 100}
NcoSamps == {256, 1000, 4096}

InitNco ==
  /\ CodeIdle /\ KernIdle /\ TrackIdle /\ TrigIdle /\ MixIdle /\ PhaseIdle
  /\ nco_lut \in NcoLuts
  /\ nco_blk \in 0..MaxBlk
  /\ nco_rem \in NcoRems
  /\ nco_cf \in NcoFreqs
  /\ nco_sf \in NcoSamps
  /\ nco_ran = {}
  /\ nco_out = Empty
  /\ nom_out = Empty

\* A call of avx2_nco_si32 on the inputs.
CallNco ==
  /\ "avx2_nco_si32" \notin nco_ran
  /\ nco_out' = avx2_nco_si32(Lut(nco_lut), nco_blk, nco_rem, nco_cf, nco_sf)
  /\ nco_ran' = nco_ran \cup {"avx2_nco_si32"}
  /\ UNCHANGED <<nco_lut, nco_blk, nco_rem, nco_cf, nco_sf, nom_out>>
  /\ UNCHANGED <<codeVars, kernVars, trackVars, trigVars, mixVars, phaseVars>>

\* A call of avx2_nom_nco_si32 on the inputs.
CallNomNco ==
  /\ "avx2_nom_nco_si32" \notin nco_ran
  /\ nom_out' = avx2_nom_nco_si32(Lut(nco_lut), nco_blk, nco_rem, nco_cf, nco_sf)
  /\ nco_ran' = nco_ran \cup {"avx2_nom_nco_si32"}
  /\ UNCHANGED <<nco_lut, nco_blk, nco_rem, nco_cf, nco_sf, nco_out>>
  /\ UNCHANGED <<codeVars, kernVars, trackVars, trigVars, mixVars, phaseVars>>

NextNco == CallNco \/ CallNomNco

SpecNco == InitNco /\ [][NextNco]_vars

\* ---- the code replica generators

\* The inputs drawn for the code replica generators.
CodeTabs  == {"index", "chips"}
CodeRems  == {0, 1, HalfChip, CodeDen, 3 * HalfChip, 5 * CodeDen + 3}
CodeFreqs == {1, 2, 3}
CodeSamps == {2, 4}
CodeSpcs  == {1, HalfChip, CodeDen}

InitCode ==
  /\ NcoIdle /\ KernIdle /\ TrackIdle /\ TrigIdle /\ MixIdle /\ PhaseIdle
  /\ code_tab \in CodeTabs
  /\ code_blk \in 0..MaxBlk
  /\ code_rem \in CodeRems
  /\ code_cf \in CodeFreqs
  /\ code_sf \in CodeSamps
  /\ code_spc \in CodeSpcs
  /\ code_ran = {}
  /\ vec_out = <<Empty, Empty, Empty>>
  /\ nomc_out = <<Empty, Empty, Empty>>
  /\ nomc_idx = Empty
  /\ nomf_out = <<Empty, Empty, Empty>>
  /\ nomf_idx = Empty
  /\ inl_idx = Empty

codeInputs == <<code_tab, code_blk, code_rem, code_cf, code_sf, code_spc>>

\* A call of avx2_code_si32 on the inputs.
CallCode ==
  /\ "avx2_code_si32" \notin code_ran
  /\ vec_out' = avx2_code_si32(code_tab, code_blk, code_rem, code_cf, code_sf)
  /\ code_ran' = code_ran \cup {"avx2_code_si32"}
  /\ UNCHANGED <<codeInputs, nomc_out, nomc_idx, nomf_out, nomf_idx, inl_idx>>
  /\ UNCHANGED <<ncoVars, kernVars, trackVars, trigVars, mixVars, phaseVars>>

\* A call of avx2_nom_code_si32 on the inputs.
CallNomCode ==
  /\ "avx2_nom_code_si32" \notin code_ran
  /\ nomc_out' = avx2_nom_code_si32(code_tab, code_blk, code_rem, code_cf, code_sf)
  /\ nomc_idx' = NomCodeIdxs(code_blk, code_rem, code_cf, code_sf)
  /\ code_ran' = code_ran \cup {"avx2_nom_code_si32"}
  /\ UNCHANGED <<codeInputs, vec_out, nomf_out, nomf_idx, inl_idx>>
  /\ UNCHANGED <<ncoVars, kernVars, trackVars, trigVars, mixVars, phaseVars>>

\* The in-line code loop of the tracking program run on the inputs.
RunInlineCode ==
  /\ "inline" \notin code_ran
  /\ inl_idx' = InlineCodeIdxs(code_blk, code_rem, code_cf, code_sf, code_spc)
  /\ code_ran' = code_ran \cup {"inline"}
  /\ UNCHANGED <<codeInputs, vec_out, nomc_out, nomc_idx, nomf_out, nomf_idx>>
  /\ UNCHANGED <<ncoVars, kernVars, trackVars, trigVars, mixVars, phaseVars>>

\* A call of avx2_nom_code_fl32 on the inputs, the table holding the same
\* entries as floats.
CallNomCodeFl32 ==
  /\ "avx2_nom_code_fl32" \notin code_ran
  /\ nomf_out' = avx2_nom_code_fl32(code_tab, code_blk, code_rem, code_cf, code_sf)
  /\ nomf_idx' = NomCodeFl32Idxs(code_blk, code_rem, code_cf, code_sf)
  /\ code_ran' = code_ran \cup {"avx2_nom_code_fl32"}
  /\ UNCHANGED <<codeInputs, vec_out, nomc_out, nomc_idx, inl_idx>>
  /\ UNCHANGED <<ncoVars, kernVars, trackVars, trigVars, mixVars, phaseVars>>

NextCode == CallCode \/ CallNomCode \/ RunInlineCode \/ CallNomCodeFl32

SpecCode == InitCode /\ [][NextCode]_vars

\* ---- the vector arithmetic kernels

\* The inputs drawn for the vector arithmetic kernels.
KernVecs == {"big", "small", "neg", "mixed"}

InitKern ==
  /\ NcoIdle /\ CodeIdle /\ TrackIdle /\ TrigIdle /\ MixIdle /\ PhaseIdle
  /\ k_points \in 0..MaxPoints
  /\ k_a \in KernVecs
  /\ k_b \in KernVecs
  /\ k_called = "none"
  /\ k_cvec = Empty
  /\ k_ret = 0

\* A call of a multiply kernel: cVector is written.
CallMul(name, cVector) ==
  /\ k_called = "none"
  /\ k_called' = name
  /\ k_cvec' = cVector
  /\ UNCHANGED <<k_points, k_a, k_b, k_ret>>
  /\ UNCHANGED <<ncoVars, codeVars, trackVars, trigVars, mixVars, phaseVars>>

\* A call of an accumulate kernel: a value is returned.
CallAcc(name, returnValue) ==
  /\ k_called = "none"
  /\ k_called' = name
  /\ k_ret' = returnValue
  /\ UNCHANGED <<k_points, k_a, k_b, k_cvec>>
  /\ UNCHANGED <<ncoVars, codeVars, trackVars, trigVars, mixVars, phaseVars>>

CallMulFl32 ==
  CallMul("avx2_fl32_x2_mul_fl32", avx2_fl32_x2_mul_fl32(k_a, k_b, k_points))

CallMulSi32 ==
  CallMul("avx2_si32_x2_mul_si32", avx2_si32_x2_mul_si32(k_a, k_b, k_points))

CallMulShort ==
  CallMul("avx2_mul_short", avx2_mul_short(k_a, k_b, k_points))

CallMulAndAccSi32 ==
  CallAcc("avx2_mul_and_acc_si32", avx2_mul_and_acc_si32(k_a, k_b, k_points))

CallAccumulateShort ==
  CallAcc("avx_accumulate_short", avx_accumulate_short(k_a, k_points))

CallAccumulateShortUnsat ==
  CallAcc("avx_accumulate_short_unsat", avx_accumulate_short_unsat(k_a, k_points))

CallMulAndAccShort ==
  CallAcc("avx2_mul_and_acc_short", avx2_mul_and_acc_short(k_a, k_b, k_points))

NextKern ==
  \/ CallMulFl32
  \/ CallMulSi32
  \/ CallMulShort
  \/ CallMulAndAccSi32
  \/ CallAccumulateShort
  \/ CallAccumulateShortUnsat
  \/ CallMulAndAccShort

SpecKern == InitKern /\ [][NextKern]_vars

\* ---- the tracking loop

\* The configurations drawn: 4, 16 and 32 samples a second give a
\* codePhaseStep of 2048, 512 and 256 chips at codeFreqBasis.
SamplingFreqs == {Fin(0), Fin(4), Fin(16), Fin(32)}
Tau1s == {Fin(0), Fin(1)}
EarlyLateSpcs == {HalfChip, 3 * HalfChip}
CodeLengths == {Fin(1023 * CodeDen), Fin(1025 * CodeDen)}
VsmIntervals == {1, 2}
FileBytes == {6, 64}

InitTrack ==
  /\ NcoIdle /\ CodeIdle /\ KernIdle /\ TrigIdle /\ MixIdle /\ PhaseIdle
  /\ \E samplingFreq \in SamplingFreqs, tau1carr \in Tau1s, tau1code \in Tau1s,
        earlyLateSpc \in EarlyLateSpcs, codeLength \in CodeLengths,
        codePeriods \in 0..MaxPeriods, vsmInterval \in VsmIntervals,
        fileBytes \in FileBytes :
       AtLoopStart(Config(samplingFreq, tau1carr, tau1code, earlyLateSpc,
                          codeLength, codePeriods, vsmInterval, fileBytes))

\* The double that the epoch about to run converts to blksize.
NextBlkSize ==
  BlkSize(cfg.codeLength, remCodePhase, CodePhaseStepOf(codeFreq, cfg.samplingFreq))

\* One iteration of the loop, lines 133-299, the six sums being corr.
EpochWith(corr) ==
  LET codePhaseStep == CodePhaseStepOf(codeFreq, cfg.samplingFreq)
      size      == NextBlkSize[2]
      count     == cfg.dataAdaptCoeff * size
      bytes     == Fread(count, cfg.fileBytes - fpos)
      idxs      == EpochCodeIdxs(size, remCodePhase[2], codePhaseStep[2],
                                 cfg.earlyLateSpc)
      pwr       == corr.I_P * corr.I_P + corr.Q_P * corr.Q_P
      window    == VsmWindowFull(vsmCount + 1, cfg.vsmInterval)
      rem       == XSub(XAdd(remCodePhase, XMul(Fin(size), codePhaseStep)), Chips1023)
      trigarg   == Trigarg(carrFreq, size, cfg.samplingFreq, remCarrPhase)
      carrError == CarrDiscriminator(corr.I_P, corr.Q_P)
      carrNco   == LoopFilter(oldCarrNco, cfg.tau2carr, cfg.tau1carr, carrError,
                              oldCarrError, cfg.PDIcarr)
      codeError == CodeDiscriminator(corr.I_E, corr.Q_E, corr.I_L, corr.Q_L)
      codeNco   == LoopFilter(oldCodeNco, cfg.tau2code, cfg.tau1code, codeError,
                              oldCodeError, cfg.PDIcode)
  IN  /\ blksize' = size
      /\ reads' = Append(reads, [count |-> count, bytes |-> bytes])
      /\ fpos' = fpos + bytes
      /\ caCodeReads' = UNION {Range(idxs[i]) : i \in DOMAIN idxs}
      /\ vsmCount' = IF window THEN 0 ELSE vsmCount + 1
      /\ pwrSum' = IF window THEN 0 ELSE pwrSum + pwr
      /\ pwrSqrSum' = IF window THEN 0 ELSE pwrSqrSum + pwr * pwr
      /\ VSMIndex' = IF window
                       THEN Append(VSMIndex, [slot |-> loopcount \div cfg.vsmInterval,
                                              value |-> loopcount + 1])
                     ELSE VSMIndex
      /\ remCodePhase' = rem
      /\ remCarrPhase' = WrapCarrPhase(trigarg)
      /\ oldCarrNco' = carrNco
      /\ oldCarrError' = carrError
      /\ carrFreq' = XAdd(cfg.carrFreqBasis, carrNco)
      /\ oldCodeNco' = codeNco
      /\ oldCodeError' = codeError
      /\ codeFreq' = XSub(codeFreqBasis, codeNco)
      /\ outputs' = Append(outputs,
           [loopcount |-> loopcount,
            carrFreq |-> XAdd(cfg.carrFreqBasis, carrNco),
            codeFreq |-> XSub(codeFreqBasis, codeNco),
            absoluteSample |-> XSub(Fin(CodeDen * ((fpos + bytes) \div cfg.dataAdaptCoeff)),
                                    rem),
            codeError |-> codeError, codeNco |-> codeNco,
            carrError |-> carrError, carrNco |-> carrNco,
            I_E |-> corr.I_E, I_P |-> corr.I_P, I_L |-> corr.I_L,
            Q_E |-> corr.Q_E, Q_P |-> corr.Q_P, Q_L |-> corr.Q_L])
      /\ loopcount' = loopcount + 1
      /\ UNCHANGED <<cfg, pc>>

\* An epoch: the samples read (or left in rawSignal by an earlier read) make
\* the six sums; an epoch of no sample has no power.
Epoch ==
  /\ pc = "loop"
  /\ LoopTest(loopcount, cfg.codePeriods)
  /\ IsFin(NextBlkSize)
  /\ \E corr \in Correlations :
       /\ NextBlkSize[2] <= 0 => corr = NoPower
       /\ EpochWith(corr)
  /\ UNCHANGED <<ncoVars, codeVars, kernVars, trigVars, mixVars, phaseVars>>

\* An epoch whose blksize is the conversion to int of an infinity or a NaN:
\* the conversion is undefined; it yields INT_MIN, the arrays declared with
\* that length move the stack pointer out of the stack, and the process is
\* killed at the next store through it.  Nothing is logged.
EpochOfUndefinedBlksize ==
  /\ pc = "loop"
  /\ LoopTest(loopcount, cfg.codePeriods)
  /\ ~IsFin(NextBlkSize)
  /\ blksize' = IntMin
  /\ pc' = "crashed"
  /\ UNCHANGED <<cfg, loopcount, remCodePhase, remCarrPhase, carrFreq,
                 codeFreq, oldCarrNco, oldCarrError, oldCodeNco, oldCodeError,
                 vsmCount, pwrSum, pwrSqrSum, fpos, reads, caCodeReads, outputs,
                 VSMIndex>>
  /\ UNCHANGED <<ncoVars, codeVars, kernVars, trigVars, mixVars, phaseVars>>

\* The loop is left: the output arrays are logged, the memory is freed and
\* main returns EXIT_SUCCESS.
LogResults ==
  /\ pc = "loop"
  /\ ~LoopTest(loopcount, cfg.codePeriods)
  /\ pc' = "done"
  /\ UNCHANGED <<cfg, loopcount, blksize, remCodePhase, remCarrPhase, carrFreq,
                 codeFreq, oldCarrNco, oldCarrError, oldCodeNco, oldCodeError,
                 vsmCount, pwrSum, pwrSqrSum, fpos, reads, caCodeReads, outputs,
                 VSMIndex>>
  /\ UNCHANGED <<ncoVars, codeVars, kernVars, trigVars, mixVars, phaseVars>>

NextTrack == Epoch \/ EpochOfUndefinedBlksize \/ LogResults

SpecTrack == InitTrack /\ [][NextTrack]_vars

\* ---- the carrier replica of one sample

\* The values of (int)(trigarg_vec[i] * 10000) drawn: two turns either way.
TrigArgs == -(2 * AngleTurn) .. 2 * AngleTurn

InitTrig ==
  /\ NcoIdle /\ CodeIdle /\ KernIdle /\ TrackIdle /\ MixIdle /\ PhaseIdle
  /\ trig_arg \in TrigArgs
  /\ trig_ran = FALSE /\ angle = 0 /\ carrCos = 0 /\ carrSin = 0

\* Lines 183-185 for one sample.
CarrierReplica ==
  /\ ~trig_ran
  /\ trig_ran' = TRUE
  /\ angle' = CRem(trig_arg, AngleTurn)
  /\ carrCos' = CarrReplica(gps_cos(CRem(trig_arg, AngleTurn)))
  /\ carrSin' = CarrReplica(gps_sin(CRem(trig_arg, AngleTurn)))
  /\ UNCHANGED trig_arg
  /\ UNCHANGED <<ncoVars, codeVars, kernVars, trackVars, mixVars, phaseVars>>

NextTrig == CarrierReplica

SpecTrig == InitTrig /\ [][NextTrig]_vars

\* ---- one epoch on given samples

\* The inputs drawn: a sample every chip, every 2 and every 4 chips; a
\* carrier of 0 Hz and one of an eighth of a turn a sample.
MixTables   == {"ones", "chips"}
MixSamples  == {"ones", "minus", "alternating"}
MixSamplingFreqs == {codeFreqBasis, Fin(codeFreqBasis[2] \div 2),
                     Fin(codeFreqBasis[2] \div 4)}
MixRemCodePhases == {Fin(0), Fin(HalfChip)}
MixCarrPerSample == {0, 1}
MixRemCarrPhases == {Fin(0), Fin(1), Fin(3), Fin(5)}

InitMix ==
  /\ NcoIdle /\ CodeIdle /\ KernIdle /\ TrackIdle /\ TrigIdle /\ PhaseIdle
  /\ \E caCode \in MixTables, rawSignal \in MixSamples,
        samplingFreq \in MixSamplingFreqs, remCode \in MixRemCodePhases,
        eighths \in MixCarrPerSample, remCarr \in MixRemCarrPhases :
       mix_in = MixInput(caCode, rawSignal, samplingFreq, remCode,
                         Fin(eighths * (samplingFreq[2] \div TurnDen)), remCarr)
  /\ mix_ran = FALSE /\ mix_blksize = 0 /\ mix_sums = NoPower

\* The first iteration of the loop up to the six sums, lines 149-226.
FirstEpoch ==
  /\ ~mix_ran
  /\ mix_ran' = TRUE
  /\ mix_blksize' = MixBlkSize(mix_in)
  /\ mix_sums' = MixSums(mix_in)
  /\ UNCHANGED mix_in
  /\ UNCHANGED <<ncoVars, codeVars, kernVars, trackVars, trigVars, phaseVars>>

NextMix == FirstEpoch

SpecMix == InitMix /\ [][NextMix]_vars

\* ---- the code phase in the doubles of the build

MaxPhaseEpochs == 3

\* The inputs drawn. samplingFreq (data/samplingFreq.bin): 5 samples a chip
\* at codeFreqBasis (5115013.96103895), 936002.5547473035, 2 samples a chip
\* (2046005.58441558), 16367600, 38192000 and 5000000 Hz.
PhaseSamplingFreqs ==
  {Dbl(1, BigOfDigits(<<2435, 3085, 2143, 1798, 1>>), -30),
   Dbl(1, BigOfDigits(<<5804, 62, 327, 6433, 1>>), -33),
   Dbl(1, BigOfDigits(<<619, 3298, 3429, 7792, 1>>), -32),
   Dbl(1, BigOfDigits(<<0, 0, 8064, 7791, 1>>), -29),
   Dbl(1, BigOfDigits(<<0, 0, 1792, 1132, 1>>), -27),
   Dbl(1, BigOfDigits(<<0, 0, 5120, 1573, 1>>), -30)}

\* remCodePhase (data/remCodePhase.bin): 0, 0.5 and 1022.5 chips.
PhaseRemCodePhases ==
  {DblOfInt(0), Dbl(1, BigOfInt(1), -1), Dbl(1, BigOfInt(2045), -1)}

\* The commands of the code loop filter: codeNco of 0, 0.5 and -0.5 Hz.
PhaseCodeNcos == {DblOfInt(0), Dbl(1, BigOfInt(1), -1), Dbl(-1, BigOfInt(1), -1)}

\* The state before the loop: codeFreq = 1023002.79220779 (lines 97-98), the
\* value of codeFreqBasis; the codePhaseStep of
\* data/codePhaseStep.bin is overwritten at line 149 before it is read.
InitPhase ==
  /\ NcoIdle /\ CodeIdle /\ KernIdle /\ TrackIdle /\ TrigIdle /\ MixIdle
  /\ ph_samplingFreq \in PhaseSamplingFreqs
  /\ ph_remCodePhase \in PhaseRemCodePhases
  /\ ph_codeFreq = CodeFreqBasisDouble
  /\ ph_codePhaseStep = DblOfInt(0) /\ ph_blksize = 0 /\ ph_count = 0

\* One epoch of the code phase: the step and the block length of lines
\* 149-150, the remaining code phase of line 253, (remCodePhase +
\* blksize * codePhaseStep) - 1023, and the code frequency of line 281 for
\* the command the code loop filter gives.
CodePhaseEpoch ==
  /\ ph_count < MaxPhaseEpochs
  /\ LET step == DblDiv(ph_codeFreq, ph_samplingFreq)
         size == DblCeilToInt(DblDiv(DblSub(CodeLengthDouble, ph_remCodePhase),
                                     step))
     IN  /\ ph_codePhaseStep' = step
         /\ ph_blksize' = size
         /\ ph_remCodePhase' =
              DblSub(DblAdd(ph_remCodePhase, DblMulInt(size, step)),
                     DblOfInt(1023))
  /\ \E codeNco \in PhaseCodeNcos :
       ph_codeFreq' = DblSub(CodeFreqBasisDouble, codeNco)
  /\ ph_count' = ph_count + 1
  /\ UNCHANGED ph_samplingFreq
  /\ UNCHANGED <<ncoVars, codeVars, kernVars, trackVars, trigVars, mixVars>>

NextPhase == CodePhaseEpoch

SpecPhase == InitPhase /\ [][NextPhase]_vars

-----------------------------------------------------------------------------
(* The claims.                                                             *)

\* C1: called on the same lookup table, blk_size, remaining carrier phase,
\* carrier frequency and sampling frequency, the batched oscillator
\* avx2_nco_si32 writes the same blk_size samples as the per-sample
\* oscillator avx2_nom_nco_si32.
C1_BatchedNcoEqualsPerSample ==
  nco_ran = {"avx2_nco_si32", "avx2_nom_nco_si32"} => nco_out = nom_out

\* n is the ceiling of x (x in 1/den units): the least integer not below x,
\* which is x itself when x is an integer.
IsCeiling(n, x, den) == n * den >= x /\ (n - 1) * den < x

\* The rule of C2 on the triple idx computed for sample i.
ObeysCeilingRule(idx, i, earlyLateSpc) ==
  LET baseCode == i * CodePhaseStep(code_cf, code_sf) + code_rem
  IN  /\ IsCeiling(idx[1], baseCode - earlyLateSpc, CodeDen)
      /\ IsCeiling(idx[2], baseCode, CodeDen)
      /\ IsCeiling(idx[3], baseCode + earlyLateSpc, CodeDen)

\* C2: in the scalar code replica paths (avx2_nom_code_si32 and the in-line
\* loop of the tracking program), for every nonnegative baseCode the prompt
\* index is the ceiling of baseCode (baseCode itself when it is an integer),
\* and the early and late indices are the ceilings of baseCode - spacing and
\* baseCode + spacing.
C2_ScalarIndexIsCeiling ==
  /\ "avx2_nom_code_si32" \in code_ran =>
        \A i \in 0..code_blk - 1 : ObeysCeilingRule(nomc_idx[i], i, HalfChip)
  /\ "inline" \in code_ran =>
        \A i \in 0..code_blk - 1 : ObeysCeilingRule(inl_idx[i], i, code_spc)

\* Both scalar paths have run on a block that holds a sample whose baseCode
\* is an integer, one whose baseCode is not, and an early phase below zero.
C2_Witness ==
  /\ {"avx2_nom_code_si32", "inline"} \subseteq code_ran
  /\ code_rem = 0
  /\ \E i \in 0..code_blk - 1 :
        (i * CodePhaseStep(code_cf, code_sf) + code_rem) % CodeDen # 0
  /\ \E i \in 1..code_blk - 1 :
        (i * CodePhaseStep(code_cf, code_sf) + code_rem) % CodeDen = 0
  /\ inl_idx[0][1] = 0 /\ nomc_idx[0][1] = 0

\* C3: for every sample index i in [0, blk_size), batched lanes and
\* remainder alike, the vectorized code generator avx2_code_si32 writes the
\* same early, prompt and late table entries as avx2_nom_code_si32.
C3_VectorCodeEqualsScalar ==
  {"avx2_code_si32", "avx2_nom_code_si32"} \subseteq code_ran =>
    \A r \in 1..3 : \A i \in 0..code_blk - 1 :
      i \in DOMAIN vec_out[r] /\ vec_out[r][i] = nomc_out[r][i]

\* What the multiply kernel called computes for elements i.
ProductOf(kernel, i) ==
  CASE kernel = "avx2_fl32_x2_mul_fl32" -> FloatVec(k_a, i) * FloatVec(k_b, i)
    [] kernel = "avx2_si32_x2_mul_si32" -> Mul32Lo(IntVec(k_a, i), IntVec(k_b, i))
    [] kernel = "avx2_mul_short" -> Wrap16(ShortVec(k_a, i) * ShortVec(k_b, i))

MulKernels == {"avx2_fl32_x2_mul_fl32", "avx2_si32_x2_mul_si32", "avx2_mul_short"}

\* C4: every elementwise multiply kernel writes c[i] = a[i] * b[i] for every
\* i in [0, num_points), the elements after the last full batch included.
C4_MultiplyWritesEveryElement ==
  k_called \in MulKernels =>
    \A i \in 0..k_points - 1 :
      i \in DOMAIN k_cvec /\ k_cvec[i] = ProductOf(k_called, i)

\* The scalar reference of the dot product: the sum over i, in order, of
\* a[i] * b[i] in 32-bit wraparound arithmetic.
RECURSIVE ScalarDot32(_, _)
ScalarDot32(i, sum) ==
  IF i >= k_points THEN sum
  ELSE ScalarDot32(i + 1, Add32(sum, Mul32Lo(IntVec(k_a, i), IntVec(k_b, i))))

\* C5: avx2_mul_and_acc_si32 returns the scalar reference sum of a[i] * b[i]
\* in 32-bit wraparound arithmetic, for every length N (0 for N = 0).
C5_MulAndAccEqualsScalarSum ==
  k_called = "avx2_mul_and_acc_si32" =>
    /\ k_ret = Int32(ScalarDot32(0, Word32(0)))
    /\ k_points = 0 => k_ret = 0

\* avx2_mul_and_acc_si32 was called on full batches and leftover elements
\* whose sum wrapped around.
C5_Witness ==
  /\ k_called = "avx2_mul_and_acc_si32"
  /\ k_points > 16 /\ k_points % 8 # 0
  /\ k_a = "mixed" /\ k_b = "big"
  /\ k_ret < 0

\* The sum of the 16 lanes, each lane the wrapped-around (low 16 bits) sum
\* of its elements over the full batches, plus the leftover elements.
RECURSIVE LaneRollover(_, _, _)
LaneRollover(k, number, lane) ==
  IF number >= k_points \div 16 THEN lane
  ELSE LaneRollover(k, number + 1, Wrap16(lane + ShortVec(k_a, 16 * number + k)))

RECURSIVE RolloverSum(_, _)
RolloverSum(i, sum) ==
  IF i >= k_points THEN sum
  ELSE IF i >= 16 * (k_points \div 16) THEN RolloverSum(i + 1, sum + ShortVec(k_a, i))
  ELSE IF i < 16 THEN RolloverSum(i + 1, sum + LaneRollover(i, 0, 0))
  ELSE RolloverSum(16 * (k_points \div 16), sum)

\* C6: avx_accumulate_short_unsat uses wraparound arithmetic: a 16-bit lane
\* whose running sum passes the int16 range rolls over instead of clamping,
\* so the kernel returns the rolled-over sum.
C6_UnsatRollsOver ==
  k_called = "avx_accumulate_short_unsat" => k_ret = RolloverSum(0, 0)

\* The fread of the k-th epoch run came back short.
ShortRead(k) == reads[k].bytes < reads[k].count

\* C7: when the fread of an epoch yields fewer bytes than the
\* dataAdaptCoeff * blksize requested, the loop aborts in that epoch: no
\* record is stored for that epoch or for a later one (the records of the
\* earlier epochs stay).
C7_ShortReadWritesNoRecord ==
  \A k \in DOMAIN reads :
    ShortRead(k) => \A j \in DOMAIN outputs : outputs[j].loopcount < k - 1

\* A configuration under which the loop divides by zero.
DivisionByZeroRisk ==
  \/ cfg.samplingFreq = Fin(0)
  \/ cfg.tau1carr = Fin(0)
  \/ cfg.tau1code = Fin(0)

\* C8: a configuration with samplingFreq = 0, tau1carr = 0 or tau1code = 0
\* is rejected when it is loaded: the loop is never entered with it, so no
\* epoch reads samples, stores a record or advances loopcount.
C8_LoopNotEnteredOnDivisionByZeroRisk ==
  DivisionByZeroRisk => loopcount = 0 /\ reads = << >> /\ outputs = << >>

\* C9: every early, prompt and late index at which an epoch reads the
\* 1025-entry caCode table lies in [0, 1024], whatever the early-late
\* spacing, the code length and the remaining code phase.
C9_CodeIndicesInsideTable ==
  \A idx \in caCodeReads : 0 <= idx /\ idx <= caCodeLen - 1

\* Every fread so far returned all the bytes requested.
AllReadsComplete == \A k \in DOMAIN reads : ~ShortRead(k)

\* C10: a run of codePeriods = N epochs on a sample file that is long enough
\* stores exactly N records: record k once for each k in 0..N-1, by
\* increasing k, and none of index N or more.  (The run has ended, the
\* configuration divides by nothing that is zero, and no read was short.)
C10_ExactlyNRecords ==
  (pc \in {"done", "crashed"} /\ ~DivisionByZeroRisk /\ cfg.fileBytes = 64 /\
   AllReadsComplete) =>
    /\ Len(outputs) = cfg.codePeriods
    /\ \A k \in DOMAIN outputs : outputs[k].loopcount = k - 1

C12_BlksizeAtLeastOne ==
  (~DivisionByZeroRisk /\ (loopcount > 0 \/ pc = "crashed")) => blksize >= 1

\* C13: every epoch advances remCodePhase exactly once, by
\* blksize * codePhaseStep - codeLength, codeLength being the configured
\* code length from which blksize is computed; no other step changes it.
C13_CodePhaseAdvancedByCodeLength ==
  [][/\ loopcount' = loopcount + 1 =>
         remCodePhase' =
           XSub(XAdd(remCodePhase,
                     XMul(Fin(blksize'),
                          CodePhaseStepOf(codeFreq, cfg.samplingFreq))),
                cfg.codeLength)
     /\ loopcount' = loopcount => remCodePhase' = remCodePhase]_vars

\* C14: with a configuration that divides by nothing that is zero, after
\* every epoch remCarrPhase lies in [0, 2 * pi), that is in [0, TurnDen) in
\* 1/TurnDen turns, for every carrier frequency carrFreqBasis + carrNco the
\* loop reaches.
C14_CarrPhaseInsideOneTurn ==
  (loopcount > 0 /\ ~DivisionByZeroRisk) =>
    /\ IsFin(remCarrPhase)
    /\ 0 <= remCarrPhase[2]
    /\ remCarrPhase[2] < TurnDen

\* The phase word w is n / PhaseDen of a turn scaled by 2^32.
IsScaledPhase(w, n) ==
  /\ w[2] % 4096 = 0
  /\ w[1] * 4096 + w[2] \div 4096 = n * ((Two24 \div 16) \div PhaseDen)

\* The phase word w is the whole number nearest to cf * 2^32 / sf:
\* 2 * |w * sf - cf * 2^32| <= sf, the difference taken in two parts.
IsNearestStep(w, cf, sf) ==
  LET coarse == (w[1] * sf - 256 * cf) * 4096 + (w[2] \div 4096) * sf
  IN  /\ Abs(w[1] * sf - 256 * cf) <= sf
      /\ Abs(coarse) <= sf
      /\ 2 * Abs(coarse * 4096 + (w[2] % 4096) * sf) <= sf

\* C15: avx2_nom_nco_si32 keeps a 32-bit phase accumulator that starts at
\* the remaining phase scaled by 2^32 / (2 * pi) and advances, modulo 2^32,
\* by the step round(carr_freq * 2^32 / samp_freq) after each sample; it
\* writes blk_size samples, sample k being lut[(accumulator_k >> 24) & 0xFF],
\* an index in 0..255 (the 256th of the turn the phase of sample k lies in),
\* after the accumulator has wrapped around too.
C15_NomNcoPhaseAccumulator ==
  "avx2_nom_nco_si32" \in nco_ran =>
    LET start == CarrPhaseBase(nco_rem)
        step  == CarrStep(nco_cf, nco_sf)
        accumulator(k) == AddW(start, MulW(k, step))
        index(k) == Srl24(accumulator(k)) % 256
    IN  /\ IsScaledPhase(start, nco_rem)
        /\ IsNearestStep(step, nco_cf, nco_sf)
        /\ DOMAIN nom_out = 0 .. nco_blk - 1
        /\ \A k \in 0 .. nco_blk - 1 :
             /\ index(k) \in 0 .. 255
             /\ nom_out[k] = Lut(nco_lut)[index(k)]
             /\ PhaseDen % nco_sf = 0 =>
                  index(k) = ((nco_rem + k * nco_cf * (PhaseDen \div nco_sf))
                               % PhaseDen) \div (PhaseDen \div 256)

\* A call whose step is a rounded value and whose accumulator wraps around
\* after the first sample.
C15_Witness ==
  /\ "avx2_nom_nco_si32" \in nco_ran
  /\ nco_lut = "ramp" /\ nco_blk = 12 /\ nco_rem = PhaseDen - 1
  /\ nco_cf = 100 /\ nco_sf = 1000
  /\ nom_out[0] = 255 /\ nom_out[1] = 25 /\ nom_out[11] = 25

\* The record of an epoch whose carrier discriminator divides by I_P = 0.
ZeroPrompt(rec) == rec.I_P = 0

\* The record of an epoch whose code discriminator divides by |E| + |L| = 0.
ZeroEarlyLate(rec) ==
  Magnitude(rec.I_E, rec.Q_E) + Magnitude(rec.I_L, rec.Q_L) = 0

\* C16: an epoch with I_P = 0 or |E| + |L| = 0 does not abort the run: the
\* epoch stores its record with the discriminator that is not finite, and the
\* loop goes on through all codePeriods epochs (the process is not killed,
\* and when the loop is left every epoch has stored its record).
C16_ZeroDenominatorDoesNotAbort ==
  (~DivisionByZeroRisk /\
   \E k \in DOMAIN outputs : ZeroPrompt(outputs[k]) \/ ZeroEarlyLate(outputs[k])) =>
    /\ \A k \in DOMAIN outputs :
         /\ (ZeroPrompt(outputs[k]) /\ outputs[k].Q_P = 0) =>
              ~IsFin(outputs[k].carrError)
         /\ ZeroEarlyLate(outputs[k]) => ~IsFin(outputs[k].codeError)
    /\ pc # "crashed"
    /\ pc = "done" => Len(outputs) = cfg.codePeriods

\* What a run carries from one epoch to the next, before the first epoch:
\* the values of lines 63-76 and of the configuration.
BeforeFirstEpoch(config) ==
  [remCodePhase |-> config.remCodePhase, remCarrPhase |-> config.remCarrPhase,
   carrFreq |-> config.carrFreq, codeFreq |-> codeFreqBasis,
   oldCarrNco |-> Fin(0), oldCarrError |-> Fin(0),
   oldCodeNco |-> Fin(0), oldCodeError |-> Fin(0),
   vsmCount |-> 0, pwrSum |-> 0, pwrSqrSum |-> 0, fpos |-> 0,
   records |-> << >>, samples |-> << >>]

\* What the run carries after one more epoch, from what it carried before (s)
\* and the six sums (corr) of the samples read so far.
AfterEpoch(config, s, corr) ==
  LET step      == CodePhaseStepOf(s.codeFreq, config.samplingFreq)
      size      == BlkSize(config.codeLength, s.remCodePhase, step)[2]
      bytes     == Fread(config.dataAdaptCoeff * size, config.fileBytes - s.fpos)
      pwr       == corr.I_P * corr.I_P + corr.Q_P * corr.Q_P
      window    == s.vsmCount + 1 = config.vsmInterval
      rem       == XSub(XAdd(s.remCodePhase, XMul(Fin(size), step)), Chips1023)
      carrError == CarrDiscriminator(corr.I_P, corr.Q_P)
      carrNco   == LoopFilter(s.oldCarrNco, config.tau2carr, config.tau1carr,
                              carrError, s.oldCarrError, config.PDIcarr)
      codeError == CodeDiscriminator(corr.I_E, corr.Q_E, corr.I_L, corr.Q_L)
      codeNco   == LoopFilter(s.oldCodeNco, config.tau2code, config.tau1code,
                              codeError, s.oldCodeError, config.PDIcode)
  IN  [remCodePhase |-> rem,
       remCarrPhase |-> WrapCarrPhase(Trigarg(s.carrFreq, size, config.samplingFreq,
                                              s.remCarrPhase)),
       carrFreq |-> XAdd(config.carrFreqBasis, carrNco),
       codeFreq |-> XSub(codeFreqBasis, codeNco),
       oldCarrNco |-> carrNco, oldCarrError |-> carrError,
       oldCodeNco |-> codeNco, oldCodeError |-> codeError,
       vsmCount |-> IF window THEN 0 ELSE s.vsmCount + 1,
       pwrSum |-> IF window THEN 0 ELSE s.pwrSum + pwr,
       pwrSqrSum |-> IF window THEN 0 ELSE s.pwrSqrSum + pwr * pwr,
       fpos |-> s.fpos + bytes,
       records |-> Append(s.records,
         [loopcount |-> Len(s.records),
          carrFreq |-> XAdd(config.carrFreqBasis, carrNco),
          codeFreq |-> XSub(codeFreqBasis, codeNco),
          absoluteSample |->
            XSub(Fin(CodeDen * ((s.fpos + bytes) \div config.dataAdaptCoeff)), rem),
          codeError |-> codeError, codeNco |-> codeNco,
          carrError |-> carrError, carrNco |-> carrNco,
          I_E |-> corr.I_E, I_P |-> corr.I_P, I_L |-> corr.I_L,
          Q_E |-> corr.Q_E, Q_P |-> corr.Q_P, Q_L |-> corr.Q_L]),
       samples |-> IF window
                     THEN Append(s.samples,
                                 [slot |-> Len(s.records) \div config.vsmInterval,
                                  value |-> Len(s.records) + 1])
                   ELSE s.samples]

\* What a run of the configuration carries after the epochs whose sums are
\* sums[k], ..., sums[Len(sums)], having carried s before epoch k.
RECURSIVE RunOf(_, _, _, _)
RunOf(config, sums, k, s) ==
  IF k > Len(sums) THEN s
  ELSE RunOf(config, sums, k + 1, AfterEpoch(config, s, sums[k]))

\* The six sums of the epochs run so far.
SumsSoFar ==
  [k \in DOMAIN outputs |->
     Correlation(outputs[k].I_E, outputs[k].Q_E, outputs[k].I_P, outputs[k].Q_P,
                 outputs[k].I_L, outputs[k].Q_L)]

C18_SineIsMinusOneInLowerHalf ==
  trig_ran =>
    /\ -AngleTurn < angle /\ angle < AngleTurn
    /\ carrSin \in {CarrReplica(-1), CarrReplica(1)}
    /\ carrSin = CarrReplica(IF angle % AngleTurn > 31416 THEN -1 ELSE 1)

\* The replica of a negative angle that is half a cycle below 0.
C18_Witness ==
  trig_ran /\ trig_arg = -AngleTurn - 31416 /\ angle = -31416 /\ carrSin = 8

\* C19: for every angle x in (-62832, 62832), gps_cos(x) is -1 exactly when
\* x lies inside (15708, 47124) or (-47124, -15708), and +1 elsewhere, the
\* edges of the bands included; gps_cos(x) = gps_cos(x + 62832) for every x
\* in (-62832, 0).
C19_CosineIsMinusOneInsideBands ==
  trig_ran =>
    /\ -AngleTurn < angle /\ angle < AngleTurn
    /\ carrCos = -8 <=> \/ 15708 < angle /\ angle < 47124
                        \/ -47124 < angle /\ angle < -15708
    /\ carrCos = 8 <=> ~ \/ 15708 < angle /\ angle < 47124
                         \/ -47124 < angle /\ angle < -15708
    /\ angle < 0 => carrCos = CarrReplica(gps_cos(angle + AngleTurn))

\* The replica of a negative angle on the edge of the negative band.
C19_Witness ==
  trig_ran /\ angle = -47124 /\ carrCos = 8

\* The end-to-end scenario: an all-ones code table, samples that are all +1,
\* a carrier of 0 Hz at phase 0, and a code frequency that puts the 1023
\* chips of a code period on 1023 samples.
EndToEndScenario ==
  mix_in = MixInput("ones", "ones", codeFreqBasis, Fin(0), Fin(0), Fin(0))

\* C20: in the end-to-end scenario the epoch has a blksize of exactly 1023
\* samples and a prompt in-phase sum I_P of 1023.
C20_ScenarioPromptSumIs1023 ==
  (mix_ran /\ EndToEndScenario) =>
    /\ mix_blksize = 1023
    /\ mix_sums.I_P = 1023

\* The last record stored before the epoch about to run, or the memory the
\* loop starts with (lines 65-70) when no epoch has run.
LastRecord ==
  IF outputs = << >>
    THEN [carrNco |-> Fin(0), carrError |-> Fin(0),
          codeNco |-> Fin(0), codeError |-> Fin(0),
          carrFreq |-> cfg.carrFreq, codeFreq |-> codeFreqBasis]
  ELSE [carrNco |-> outputs[Len(outputs)].carrNco,
        carrError |-> outputs[Len(outputs)].carrError,
        codeNco |-> outputs[Len(outputs)].codeNco,
        codeError |-> outputs[Len(outputs)].codeError,
        carrFreq |-> outputs[Len(outputs)].carrFreq,
        codeFreq |-> outputs[Len(outputs)].codeFreq]

\* prev + (tau2 / tau1) * (e - prevE) + e * (PDI / tau1)
TwoTap(prev, prevE, e, tau2, tau1, PDI) ==
  XAdd(XAdd(prev, XMul(XDiv(tau2, tau1), XSub(e, prevE))),
       XMul(e, XDiv(PDI, tau1)))

\* C21: in every epoch the command of each loop filter is the two-tap
\* recurrence over the previous epoch's command and error and this epoch's
\* error; the memory of each filter is overwritten with this epoch's command
\* and error, by the epoch and by no other step; carrFreq is carrFreqBasis
\* plus the carrier command and codeFreq is codeFreqBasis minus the code
\* command; and the block length, the code indices and the carrier phase of
\* an epoch are computed from the frequencies the previous epoch set.
C21_LoopFiltersAreTwoTapRecurrences ==
  [][/\ loopcount' = loopcount + 1 =>
          LET rec  == outputs'[Len(outputs')]
              last == LastRecord
              step == CodePhaseStepOf(last.codeFreq, cfg.samplingFreq)
          IN  /\ Len(outputs') = Len(outputs) + 1
              /\ rec.carrNco = TwoTap(last.carrNco, last.carrError, rec.carrError,
                                      cfg.tau2carr, cfg.tau1carr, cfg.PDIcarr)
              /\ rec.codeNco = TwoTap(last.codeNco, last.codeError, rec.codeError,
                                      cfg.tau2code, cfg.tau1code, cfg.PDIcode)
              /\ oldCarrNco' = rec.carrNco /\ oldCarrError' = rec.carrError
              /\ oldCodeNco' = rec.codeNco /\ oldCodeError' = rec.codeError
              /\ carrFreq' = XAdd(cfg.carrFreqBasis, rec.carrNco)
              /\ codeFreq' = XSub(codeFreqBasis, rec.codeNco)
              /\ rec.carrFreq = carrFreq' /\ rec.codeFreq = codeFreq'
              /\ blksize' = BlkSize(cfg.codeLength, remCodePhase, step)[2]
              /\ caCodeReads' =
                   UNION {Range(ScalarCodeIdxs(i, remCodePhase[2], step[2],
                                               cfg.earlyLateSpc, CodeDen)) :
                          i \in 0..blksize' - 1}
              /\ remCarrPhase' =
                   WrapCarrPhase(Trigarg(last.carrFreq, blksize', cfg.samplingFreq,
                                         remCarrPhase))
     /\ loopcount' = loopcount =>
          UNCHANGED <<oldCarrNco, oldCarrError, oldCodeNco, oldCodeError,
                      carrFreq, codeFreq>>]_vars

\* Three epochs have run with non-zero errors and commands in both loops, and
\* the frequencies the second epoch set, both off their bases, made the third
\* epoch's block of samples.
C21_Witness ==
  /\ Len(outputs) = 3
  /\ outputs[1].carrError # Fin(0) /\ outputs[1].codeError # Fin(0)
  /\ IsFin(outputs[2].carrNco) /\ outputs[2].carrNco # Fin(0)
  /\ outputs[2].carrNco # outputs[1].carrNco
  /\ IsFin(outputs[2].codeNco) /\ outputs[2].codeNco # Fin(0)
  /\ outputs[2].codeNco # outputs[1].codeNco
  /\ IsFin(outputs[3].carrFreq) /\ IsFin(outputs[3].codeFreq)
  /\ blksize >= 1

\* The word of the sum the leftover loop of avx2_mul_and_acc_short makes of
\* elements i .. k_points - 1: returnValue += (*aPtr++) * (*bPtr++).
RECURSIVE ScalarDotShort(_, _)
ScalarDotShort(i, sum) ==
  IF i >= k_points THEN sum
  ELSE ScalarDotShort(i + 1,
                      Add32(sum, Word32(ShortVec(k_a, i) * ShortVec(k_b, i))))

\* C22: in avx2_mul_and_acc_short an element pair adds the same value to the
\* returned sum in a batch of 16 lanes as in the scalar leftover loop, for
\* every pair of int16 values, pairs whose product is outside the int16 range
\* included: the value returned is the sum the leftover loop makes of all
\* the num_points pairs.
C22_BatchedPairsCountAsScalarPairs ==
  k_called = "avx2_mul_and_acc_short" => k_ret = Int32(ScalarDotShort(0, Word32(0)))

\* C23: avx2_nom_code_fl32 applies the rounding rule of avx2_nom_code_si32
\* (truncate toward zero, and add 1 when the truncated value is less than
\* the true value): called on the same blk_size, rem_code_phase, code_freq
\* and samp_freq, the two select the same early, prompt and late table
\* indices for every sample.
C23_FloatGeneratorSelectsTheIntegerIndices ==
  {"avx2_nom_code_si32", "avx2_nom_code_fl32"} \subseteq code_ran =>
    \A i \in 0..code_blk - 1 : nomf_idx[i] = nomc_idx[i]

\* C24: in every epoch the number of raw samples read into rawSignal,
\* dataAdaptCoeff * blksize with the blksize of that epoch, is at most the
\* capacity rawSignal was allocated with before the loop (dataAdaptCoeff
\* times the configured blksize): no read asks for, or writes, more bytes
\* than the buffer holds.
C24_ReadsFitTheSampleBuffer ==
  \A k \in DOMAIN reads :
    /\ reads[k].count >= 0
    /\ reads[k].count <= RawSignalCapacity(cfg)
    /\ reads[k].bytes <= RawSignalCapacity(cfg)

\* C25: starting from a remaining code phase in [0, codeLength), codeLength
\* = 1023, and a positive code phase step, the remaining code phase at the
\* end of every epoch is at least 0 and below the codePhaseStep of that
\* epoch.
C25_RemCodePhaseStaysBelowOneStep ==
  ph_count > 0 => /\ ~DblLess(ph_remCodePhase, DblOfInt(0))
                  /\ DblLess(ph_remCodePhase, ph_codePhaseStep)

\* C26: at every epoch boundary the counter of the variance estimator is at
\* least 0, below vsmInterval and equal to the number of completed epochs
\* modulo vsmInterval; pwrSum and pwrSqrSum are 0 whenever vsmCount is 0;
\* and every C/No store, made in the epoch of number loopcount (VSMIndex
\* holds loopcount + 1), uses slot loopcount / vsmInterval, which is below
\* the allocated length codePeriods / vsmInterval and is used at most once.
C26_VsmCounterAndSlotsStayInStep ==
  /\ 0 <= vsmCount /\ vsmCount < cfg.vsmInterval
  /\ vsmCount = loopcount % cfg.vsmInterval
  /\ vsmCount = 0 => pwrSum = 0 /\ pwrSqrSum = 0
  /\ \A j \in DOMAIN VSMIndex :
       /\ VSMIndex[j].slot = (VSMIndex[j].value - 1) \div cfg.vsmInterval
       /\ VSMIndex[j].value - 1 < loopcount
       /\ 0 <= VSMIndex[j].slot
       /\ VSMIndex[j].slot < cfg.codePeriods \div cfg.vsmInterval
       /\ \A k \in DOMAIN VSMIndex : k # j => VSMIndex[k].slot # VSMIndex[j].slot

\* Three epochs with power in the prompt correlator and a window of two
\* epochs: one store, into slot 0, and the second window half way, the sums
\* holding the power of one epoch.
C26_Witness ==
  /\ cfg.vsmInterval = 2 /\ cfg.codePeriods = 3 /\ loopcount = 3
  /\ VSMIndex = <<[slot |-> 0, value |-> 2]>>
  /\ vsmCount = 1 /\ pwrSum > 0 /\ pwrSqrSum > 0

=============================================================================
